---- MODULE Spec2Model ----
(***************************************************************************)
(* A model of kfac/python/ops/fisher_blocks.py: one FisherBlock of any of  *)
(* the block classes, the towers registered on it, its instantiate_factors *)
(* wiring (with the tower/use canonicalisation of _process_data), and the   *)
(* register_matpower / multiply_matpower calls it forwards to its factors.  *)
(*                                                                         *)
(* Tensors are opaque: a tensor is named by the place the caller took it   *)
(* from (side, source, tower, use).  A Python list or tuple is a record    *)
(* [container, items]; a utils.PartitionedTensor is a piece with pt = TRUE. *)
(***************************************************************************)
EXTENDS Integers, Sequences, FiniteSets, TLC

\* ---------------------------------------------------------------- bounds
MaxTowers == 2
MaxUses == 2
MaxSources == 2
MaxInst == 2

\* Python's None where an int is expected (num_uses=None, normalization=None).
None == -1

Dampings == {1, 2}
Exps == {-1, 1}

\* ------------------------------------------------------------ block kinds
BatchKinds == {"FullFB", "NaiveDiagonalFB"}
SingleUseKinds == {"FullyConnectedDiagonalFB", "ConvDiagonalFB",
                   "EmbeddingKFACFB", "FullyConnectedKFACBasicFB",
                   "ConvKFCBasicFB",
                   "DepthwiseConvDiagonalFB", "DepthwiseConvKFCBasicFB"}
MultiUseKinds == {"FullyConnectedMultiIndepFB", "ConvKFCBasicMultiIndepFB",
                  "EmbeddingKFACMultiIndepFB", "FullyConnectedSeriesFB"}
InputOutputKinds == SingleUseKinds \cup MultiUseKinds
DiagonalKinds == {"NaiveDiagonalFB", "FullyConnectedDiagonalFB",
                  "ConvDiagonalFB", "DepthwiseConvDiagonalFB"}
KroneckerKinds == {"EmbeddingKFACFB", "FullyConnectedKFACBasicFB",
                   "ConvKFCBasicFB", "DepthwiseConvKFCBasicFB"}
                    \cup MultiUseKinds
\* The adapters around ConvDiagonalFB and ConvKFCBasicFB.
DepthwiseKinds == {"DepthwiseConvDiagonalFB", "DepthwiseConvKFCBasicFB"}
Kinds == BatchKinds \cup InputOutputKinds

\* SeriesFBApproximation; 3 stands for a value that is neither option.
option1 == 1
option2 == 2
SeriesOptions == {option1, option2, 3}

\* fisher_factors.TOWER_STRATEGY; "bogus" stands for any other value.
TowerStrategies == {"concat", "separate", "bogus"}

VARIABLES
  TOWER_STRATEGY,  \* fisher_factors.TOWER_STRATEGY (configure-once)
  NORMALIZE_DAMPING_POWER,  \* module global, set by set_global_constants
  PI_TYPE,         \* module global, set by set_global_constants
  cov,             \* what get_cov() of the block's factors returns now
  self,            \* the block's attributes
  registrations,   \* what has been registered on the factors of the collection
  call,            \* the last call made on the block and how it ended
  n_inst           \* number of instantiate_factors calls that returned normally

\* Everything a block method leaves alone: the globals and the covariances.
env == <<TOWER_STRATEGY, NORMALIZE_DAMPING_POWER, PI_TYPE, cov>>

vars == <<env, self, registrations, call, n_inst>>

\* ------------------------------------------------------------------ data
Tensor(side, s, t, u) == [side |-> side, src |-> s, tower |-> t, use |-> u]

\* What a caller passes for one tower: a list over uses of tensors
\* (list = TRUE) or one tensor (list = FALSE, elts = <<tensor>>).
ListDatum(side, s, t, n) ==
  [list |-> TRUE, elts |-> [u \in 1..n |-> Tensor(side, s, t, u)]]
TensorDatum(side, s, t) ==
  [list |-> FALSE, elts |-> <<Tensor(side, s, t, 0)>>]

Coll(container, items) == [container |-> container, items |-> items]
NoColl == Coll("unset", <<>>)
PartitionedTensor(tensors) == [pt |-> TRUE, parts |-> tensors]
RawPiece(d) == [pt |-> FALSE, parts |-> d.elts]

\* A Python list of towers, as the caller built it.
RawList(towers) == Coll("list", [t \in DOMAIN towers |-> RawPiece(towers[t])])
\* grads_list as passed: a list over sources of lists over towers.
RawGrads(grads_list) ==
  Coll("list", [s \in DOMAIN grads_list |-> RawList(grads_list[s])])

\* The tensors of a list over towers of single tensors.
TensorsOf(towers) == [t \in DOMAIN towers |-> towers[t].elts[1]]

RECURSIVE Flatten(_)
Flatten(seqs) ==
  IF seqs = <<>> THEN <<>> ELSE Head(seqs) \o Flatten(Tail(seqs))

MinLen(rows) ==
  IF rows = <<>> THEN 0
  ELSE CHOOSE n \in {Len(rows[t]) : t \in DOMAIN rows} :
         \A t \in DOMAIN rows : n <= Len(rows[t])

\* Python's zip(*rows): item u is the tuple of the u-th elements of the rows.
Zip(rows) ==
  [u \in 1..MinLen(rows) |-> [t \in DOMAIN rows |-> rows[t][u]]]

RECURSIVE Prod(_)
Prod(seq) == IF seq = <<>> THEN 1 ELSE Head(seq) * Prod(Tail(seq))

RECURSIVE Sum(_)
Sum(seq) == IF seq = <<>> THEN 0 ELSE Head(seq) + Sum(Tail(seq))

\* ------------------------------------------------------- pure functions
\* A num_conv_locations that rounds the quotient up.
num_conv_locations_ceil(input_shape, strides) ==
  LET spatial_input_locations ==
        Prod(SubSeq(input_shape, 2, Len(input_shape) - 1))
      spatial_strides_divisor == IF strides = <<>> THEN 1 ELSE Prod(strides)
  IN  (spatial_input_locations + spatial_strides_divisor - 1)
        \div spatial_strides_divisor

\* num_conv_locations(input_shape, strides); strides = <<>> stands for None.
num_conv_locations(input_shape, strides) ==
  LET spatial_input_locations ==
        Prod(SubSeq(input_shape, 2, Len(input_shape) - 1))
      spatial_strides_divisor == IF strides = <<>> THEN 1 ELSE Prod(strides)
  IN  spatial_input_locations \div spatial_strides_divisor

\* Shape of every registered convolution input and the layer's strides.
ConvInputShape == <<2, 4, 4, 3>>
ConvStrides == <<1, 2, 2, 1>>

\* ------------------------------------------------------------- numbers
\* Damping values are positive reals built from rationals with *, / and
\* sqrt.  A positive real x is kept exactly, as the rational x*x in lowest
\* terms, so that sqrt of a rational is exact; rounding is left out.
RECURSIVE GCD(_, _)
GCD(a, b) == IF b = 0 THEN a ELSE GCD(b, a % b)

Rat(n, d) == <<n \div GCD(n, d), d \div GCD(n, d)>>
RatMul(p, q) == Rat(p[1] * q[1], p[2] * q[2])
RatDiv(p, q) == Rat(p[1] * q[2], p[2] * q[1])

\* The positive rational n/d as a real.
Num(n, d) == [sq |-> Rat(n * n, d * d)]
Mul(x, y) == [sq |-> RatMul(x.sq, y.sq)]
Div(x, y) == [sq |-> RatDiv(x.sq, y.sq)]
\* x ** 0.5 and math_ops.sqrt, for x a rational.
ISqrt(n) == CHOOSE k \in 0..n : k * k = n
Sqrt(x) == [sq |-> <<ISqrt(x.sq[1]), ISqrt(x.sq[2])>>]
\* x ** p for a natural p.
RECURSIVE Pow(_, _)
Pow(x, p) == IF p = 0 THEN Num(1, 1) ELSE Mul(x, Pow(x, p - 1))

\* A normalize_damping that divides by num_replications whatever the power.
normalize_damping_linear(damping, num_replications, power) ==
  Div(damping, Num(num_replications, 1))

\* normalize_damping(damping, num_replications) under a given
\* NORMALIZE_DAMPING_POWER.
normalize_damping(damping, num_replications, power) ==
  IF power # 0 THEN Div(damping, Pow(Num(num_replications, 1), power))
  ELSE damping

\* _trace(cov) inside compute_pi_tracenorm.
trace(c) ==
  IF c.rank \in {1, 2} THEN [err |-> "ok", val |-> Sum(c.diag)]
  ELSE [err |-> "ValueError", val |-> None]

\* compute_pi_tracenorm(left_cov, right_cov)
compute_pi_tracenorm(left_cov, right_cov) ==
  LET norms(l, r) ==
        IF l.err # "ok" THEN [err |-> l.err, val |-> None]
        ELSE IF r.err # "ok" THEN [err |-> r.err, val |-> None]
        ELSE [err |-> "ok",
              val |-> Sqrt(Div(Num(l.val * Len(right_cov.diag), 1),
                               Num(r.val * Len(left_cov.diag), 1)))]
  IN norms(trace(left_cov), trace(right_cov))

\* A compute_pi_adjusted_damping that multiplies both sides by pi.
compute_pi_adjusted_damping_times(left_cov, right_cov, damping, pi_type) ==
  IF pi_type = "tracenorm" THEN
    LET adjust(pi) ==
          IF pi.err # "ok" THEN [err |-> pi.err, val |-> None]
          ELSE [err |-> "ok",
                val |-> <<Mul(damping, pi.val), Mul(damping, pi.val)>>]
    IN adjust(compute_pi_tracenorm(left_cov, right_cov))
  ELSE IF pi_type = "off" THEN [err |-> "ok", val |-> <<damping, damping>>]
  ELSE [err |-> "ok", val |-> None]

\* A compute_pi_adjusted_damping that rejects a PI_TYPE it does not know.
compute_pi_adjusted_damping_strict(left_cov, right_cov, damping, pi_type) ==
  IF pi_type = "tracenorm" THEN
    LET adjust(pi) ==
          IF pi.err # "ok" THEN [err |-> pi.err, val |-> None]
          ELSE [err |-> "ok",
                val |-> <<Mul(damping, pi.val), Div(damping, pi.val)>>]
    IN adjust(compute_pi_tracenorm(left_cov, right_cov))
  ELSE IF pi_type = "off" THEN [err |-> "ok", val |-> <<damping, damping>>]
  ELSE [err |-> "ValueError", val |-> None]

\* compute_pi_adjusted_damping(left_cov, right_cov, damping) under a given
\* PI_TYPE; any other PI_TYPE falls off the end and returns None.
compute_pi_adjusted_damping(left_cov, right_cov, damping, pi_type) ==
  IF pi_type = "tracenorm" THEN
    LET adjust(pi) ==
          IF pi.err # "ok" THEN [err |-> pi.err, val |-> None]
          ELSE [err |-> "ok",
                val |-> <<Mul(damping, pi.val), Div(damping, pi.val)>>]
    IN adjust(compute_pi_tracenorm(left_cov, right_cov))
  ELSE IF pi_type = "off" THEN [err |-> "ok", val |-> <<damping, damping>>]
  ELSE [err |-> "ok", val |-> None]

\* An InputOutputMultiTower._process_data that insists on as many towers in
\* every source as were registered.
IOMT_process_data_checked(inputs, grads_list, strategy) ==
  IF \E s \in DOMAIN grads_list : Len(grads_list[s]) # Len(inputs) THEN
    [err |-> "ValueError", inputs |-> NoColl, grads |-> NoColl]
  ELSE IF strategy = "concat" THEN
    [err |-> "ok",
     inputs |-> Coll("tuple", <<PartitionedTensor(TensorsOf(inputs))>>),
     grads |-> Coll("tuple",
        [s \in DOMAIN grads_list |->
           Coll("tuple", <<PartitionedTensor(TensorsOf(grads_list[s]))>>)])]
  ELSE IF strategy = "separate" THEN
    [err |-> "ok",
     inputs |-> Coll("tuple", RawList(inputs).items),
     grads |-> Coll("tuple", RawGrads(grads_list).items)]
  ELSE
    [err |-> "ValueError", inputs |-> NoColl, grads |-> NoColl]

\* An InputOutputMultiTower._process_data whose "concat" merges the sources
\* too.
IOMT_process_data_flat(inputs, grads_list, strategy) ==
  IF strategy = "concat" THEN
    [err |-> "ok",
     inputs |-> Coll("tuple", <<PartitionedTensor(TensorsOf(inputs))>>),
     grads |-> Coll("tuple",
        <<Coll("tuple",
           <<PartitionedTensor(
               Flatten([s \in DOMAIN grads_list |->
                          TensorsOf(grads_list[s])]))>>)>>)]
  ELSE IF strategy = "separate" THEN
    [err |-> "ok",
     inputs |-> Coll("tuple", RawList(inputs).items),
     grads |-> Coll("tuple", RawGrads(grads_list).items)]
  ELSE
    [err |-> "ValueError", inputs |-> NoColl, grads |-> NoColl]

\* InputOutputMultiTower._process_data: the result of the call, err = "ok"
\* when it returns.
IOMT_process_data(inputs, grads_list, strategy) ==
  IF strategy = "concat" THEN
    [err |-> "ok",
     inputs |-> Coll("tuple", <<PartitionedTensor(TensorsOf(inputs))>>),
     grads |-> Coll("tuple",
        [s \in DOMAIN grads_list |->
           Coll("tuple", <<PartitionedTensor(TensorsOf(grads_list[s]))>>)])]
  ELSE IF strategy = "separate" THEN
    [err |-> "ok",
     inputs |-> Coll("tuple", RawList(inputs).items),
     grads |-> Coll("tuple", RawGrads(grads_list).items)]
  ELSE
    [err |-> "ValueError", inputs |-> NoColl, grads |-> NoColl]

\* all(len(input_) == num_uses for input_ in inputs) (l. 1211)
UsesAgree(towers, num_uses) ==
  \A t \in DOMAIN towers : Len(towers[t].elts) = num_uses

\* A check of the first source only.
GradsUsesAgree_first(grads_list, num_uses) ==
  UsesAgree(grads_list[1], num_uses)

\* all(len(grad) == num_uses for grads in grads_list for grad in grads)
GradsUsesAgree(grads_list, num_uses) ==
  \A s \in DOMAIN grads_list : UsesAgree(grads_list[s], num_uses)

\* A merge that flattens without zip(*towers): tower-major.
MergeUses_towermajor(towers) ==
  Coll("tuple",
       <<PartitionedTensor(
           Flatten([t \in DOMAIN towers |-> towers[t].elts]))>>)

\* "concat" on a list over towers of lists over uses: zip(*towers), flatten,
\* one PartitionedTensor in a singleton tuple (l. 1218-1225, 1255-1265).
MergeUses(towers) ==
  Coll("tuple",
       <<PartitionedTensor(
           Flatten(Zip([t \in DOMAIN towers |-> towers[t].elts])))>>)

\* A fold that gives every tower the uses of the first one.
FoldUses_first(towers) ==
  Coll("tuple", [t \in DOMAIN towers |-> PartitionedTensor(towers[1].elts)])

\* "separate": one PartitionedTensor over its uses per tower (l. 1231, 1271).
FoldUses(towers) ==
  Coll("tuple", [t \in DOMAIN towers |-> PartitionedTensor(towers[t].elts)])

\* InputOutputMultiTowerMultiUse._process_data, the inputs half (l. 1201-1235).
\* num_uses is the value self._num_uses has when the half ends or raises.
MU_process_inputs(inputs, self_num_uses, strategy) ==
  IF inputs[1].list THEN
    LET num_uses == Len(inputs[1].elts) IN
    IF self_num_uses # None /\ self_num_uses # num_uses THEN
      [err |-> "ValueError", num_uses |-> self_num_uses, val |-> NoColl]
    ELSE IF ~ UsesAgree(inputs, num_uses) THEN
      [err |-> "ValueError", num_uses |-> num_uses, val |-> NoColl]
    ELSE IF strategy = "concat" THEN
      [err |-> "ok", num_uses |-> num_uses, val |-> MergeUses(inputs)]
    ELSE IF strategy = "separate" THEN
      [err |-> "ok", num_uses |-> num_uses, val |-> FoldUses(inputs)]
    ELSE
      [err |-> "ValueError", num_uses |-> num_uses, val |-> NoColl]
  ELSE
    [err |-> "ok", num_uses |-> self_num_uses, val |-> RawList(inputs)]

\* The grads_list half of the same method (l. 1237-1277).
MU_process_grads(grads_list, self_num_uses, strategy) ==
  IF grads_list[1][1].list THEN
    LET num_uses == Len(grads_list[1][1].elts) IN
    IF self_num_uses # None /\ self_num_uses # num_uses THEN
      [err |-> "ValueError", num_uses |-> self_num_uses, val |-> NoColl]
    ELSE IF ~ GradsUsesAgree(grads_list, num_uses) THEN
      [err |-> "ValueError", num_uses |-> num_uses, val |-> NoColl]
    ELSE IF strategy = "concat" THEN
      [err |-> "ok", num_uses |-> num_uses,
       val |-> Coll("tuple",
          [s \in DOMAIN grads_list |-> MergeUses(grads_list[s])])]
    ELSE IF strategy = "separate" THEN
      [err |-> "ok", num_uses |-> num_uses,
       val |-> Coll("tuple",
          [s \in DOMAIN grads_list |-> FoldUses(grads_list[s])])]
    ELSE
      [err |-> "ValueError", num_uses |-> num_uses, val |-> NoColl]
  ELSE
    [err |-> "ok", num_uses |-> self_num_uses, val |-> RawGrads(grads_list)]

\* A _process_data that leaves the stored use count alone when it raises.
MU_process_data_atomic(inputs, grads_list, self_num_uses, strategy) ==
  LET closing(a, b) ==
        IF b.err # "ok" THEN
          [err |-> b.err, num_uses |-> self_num_uses,
           inputs |-> NoColl, grads |-> NoColl]
        ELSE IF b.num_uses = None THEN
          [err |-> "ValueError", num_uses |-> self_num_uses,
           inputs |-> NoColl, grads |-> NoColl]
        ELSE
          [err |-> "ok", num_uses |-> b.num_uses,
           inputs |-> a.val, grads |-> b.val]
      grads_half(a) ==
        IF a.err # "ok" THEN
          [err |-> a.err, num_uses |-> self_num_uses,
           inputs |-> NoColl, grads |-> NoColl]
        ELSE closing(a, MU_process_grads(grads_list, a.num_uses, strategy))
  IN grads_half(MU_process_inputs(inputs, self_num_uses, strategy))

\* InputOutputMultiTowerMultiUse._process_data as a whole.
MU_process_data(inputs, grads_list, self_num_uses, strategy) ==
  LET closing(a, b) ==
        IF b.err # "ok" THEN
          [err |-> b.err, num_uses |-> b.num_uses,
           inputs |-> NoColl, grads |-> NoColl]
        ELSE IF b.num_uses = None THEN
          [err |-> "ValueError", num_uses |-> None,
           inputs |-> NoColl, grads |-> NoColl]
        ELSE
          [err |-> "ok", num_uses |-> b.num_uses,
           inputs |-> a.val, grads |-> b.val]
      grads_half(a) ==
        IF a.err # "ok" THEN
          [err |-> a.err, num_uses |-> a.num_uses,
           inputs |-> NoColl, grads |-> NoColl]
        ELSE closing(a, MU_process_grads(grads_list, a.num_uses, strategy))
  IN grads_half(MU_process_inputs(inputs, self_num_uses, strategy))

\* _process_data as the block's class resolves it.
process_data(s, grads_list, strategy) ==
  IF s.kind \in MultiUseKinds THEN
    MU_process_data(s.inputs, grads_list, s.num_uses, strategy)
  ELSE
    LET result(r) == [err |-> r.err, num_uses |-> s.num_uses,
                      inputs |-> r.inputs, grads |-> r.grads]
    IN result(IOMT_process_data(s.inputs, grads_list, strategy))

\* ------------------------------------------------------ factors, thunks
\* LayerCollection.make_or_get_factor(cls, args): the collection hands out one
\* factor per (cls, args), so the handle is that identity.
make_or_get_factor(cls, inputs, grads, num_uses, batch_size) ==
  [cls |-> cls, inputs |-> inputs, grads |-> grads,
   num_uses |-> num_uses, batch_size |-> batch_size]
NoFactor == make_or_get_factor("unset", NoColl, NoColl, None, 0)

\* _package_func(func, func_id): kind names the computation, the other
\* fields are the values its func_id declares.
PackagedFunc(kind, damping, normalization, ref) ==
  [kind |-> kind, damping |-> damping, norm |-> normalization, ref |-> ref]
NoThunk == PackagedFunc("unset", 0, None, 0)

Registration(factor, method, exp, thunk) ==
  [factor |-> factor, method |-> method, exp |-> exp, thunk |-> thunk]
FactorCall(role, method, exp, thunk) ==
  [role |-> role, method |-> method, exp |-> exp, thunk |-> thunk]

\* A _setup_damping that keeps the thunks of an earlier call.
setup_damping_keep(s, damping, normalization) ==
  IF s.input_damping_func # NoThunk THEN s
  ELSE [s EXCEPT
     !.input_damping_func =
        PackagedFunc("compute_pi_adjusted_damping", damping, normalization, 0),
     !.output_damping_func =
        PackagedFunc("compute_pi_adjusted_damping", damping, normalization, 1)]

\* KroneckerProductFB._setup_damping(damping, normalization)
setup_damping(s, damping, normalization) ==
  [s EXCEPT
     !.input_damping_func =
        PackagedFunc("compute_pi_adjusted_damping", damping, normalization, 0),
     !.output_damping_func =
        PackagedFunc("compute_pi_adjusted_damping", damping, normalization, 1)]

\* The block after construction (the __init__ of its class).
NewBlock(kind, num_uses, option) ==
  [kind |-> kind, ctor_num_uses |-> num_uses, num_uses |-> num_uses,
   option |-> option,
   inputs |-> <<>>, outputs |-> <<>>, batch_sizes |-> <<>>,
   num_locations |-> None,
   factor |-> NoFactor, input_factor |-> NoFactor, output_factor |-> NoFactor,
   damping_func |-> NoThunk,
   input_damping_func |-> NoThunk, output_damping_func |-> NoThunk]

Returned(s) == [err |-> "ok", self |-> s, fcalls |-> <<>>]
Raised(err, s) == [err |-> err, self |-> s, fcalls |-> <<>>]

\* num_registered_towers of the block's class.
num_registered_towers(s) ==
  IF s.kind \in BatchKinds THEN Len(s.batch_sizes) ELSE Len(s.inputs)

\* A _batch_size that is the size of the tower registered last.
self_batch_size_last(s) ==
  IF s.batch_sizes = <<>> THEN 0 ELSE s.batch_sizes[Len(s.batch_sizes)]

\* FullFB._batch_size / NaiveDiagonalFB._batch_size
self_batch_size(s) == Sum(s.batch_sizes)

\* FullFB.instantiate_factors / NaiveDiagonalFB.instantiate_factors
Batch_instantiate_factors(s, grads_list, damping, cls) ==
  Returned([s EXCEPT
     !.damping_func = PackagedFunc("const", damping, None, 0),
     !.factor = make_or_get_factor(cls, NoColl, RawGrads(grads_list), None,
                                   self_batch_size(s))])

\* FullyConnectedDiagonalFB.instantiate_factors
FCDiag_instantiate_factors(s, grads_list, damping, strategy) ==
  LET wire(r) ==
        IF r.err # "ok" THEN Raised(r.err, s)
        ELSE Returned([s EXCEPT
           !.factor = make_or_get_factor("FullyConnectedDiagonalFactor",
                                         r.inputs, r.grads, None, 0),
           !.damping_func = PackagedFunc("const", damping, None, 0)])
  IN wire(process_data(s, grads_list, strategy))

\* ConvDiagonalFB.instantiate_factors
ConvDiag_instantiate_factors(s, grads_list, damping, strategy) ==
  LET wire(r, n) ==
        IF r.err # "ok" THEN Raised(r.err, s)
        ELSE Returned([s EXCEPT
           !.num_locations = n,
           !.factor = make_or_get_factor("ConvDiagonalFactor",
                                         r.inputs, r.grads, None, 0),
           !.damping_func =
              PackagedFunc("mult_normalize_damping", damping, n, 0)])
  IN wire(process_data(s, grads_list, strategy),
          num_conv_locations(ConvInputShape, ConvStrides))

\* EmbeddingKFACFB / FullyConnectedKFACBasicFB .instantiate_factors
Kron_instantiate_factors(s, grads_list, damping, strategy, in_cls, out_cls) ==
  LET wire(r) ==
        IF r.err # "ok" THEN Raised(r.err, s)
        ELSE Returned(setup_damping(
           [s EXCEPT
              !.input_factor =
                 make_or_get_factor(in_cls, r.inputs, NoColl, None, 0),
              !.output_factor =
                 make_or_get_factor(out_cls, NoColl, r.grads, None, 0)],
           damping, None))
  IN wire(process_data(s, grads_list, strategy))

\* ConvKFCBasicFB.instantiate_factors: the location count is stored before
\* the data is processed.
ConvKFC_instantiate_factors(s, grads_list, damping, strategy) ==
  LET wire(s1, r) ==
        IF r.err # "ok" THEN Raised(r.err, s1)
        ELSE Returned(setup_damping(
           [s1 EXCEPT
              !.input_factor = make_or_get_factor("ConvInputKroneckerFactor",
                                                  r.inputs, NoColl, None, 0),
              !.output_factor = make_or_get_factor("ConvOutputKroneckerFactor",
                                                   NoColl, r.grads, None, 0)],
           damping, s1.num_locations))
      process(s1) == wire(s1, process_data(s1, grads_list, strategy))
  IN process([s EXCEPT
       !.num_locations = num_conv_locations(ConvInputShape, ConvStrides)])

\* FullyConnectedMultiIndepFB / EmbeddingKFACMultiIndepFB .instantiate_factors
MultiIndep_instantiate_factors(s, grads_list, damping, strategy, in_cls) ==
  LET wire(r, s1) ==
        IF r.err # "ok" THEN Raised(r.err, s1)
        ELSE Returned(setup_damping(
           [s1 EXCEPT
              !.input_factor = make_or_get_factor(in_cls, r.inputs, NoColl,
                 IF in_cls = "FullyConnectedMultiKF" THEN r.num_uses ELSE None,
                 0),
              !.output_factor = make_or_get_factor("FullyConnectedMultiKF",
                                   NoColl, r.grads, r.num_uses, 0)],
           damping, r.num_uses))
      process(r) == wire(r, [s EXCEPT !.num_uses = r.num_uses])
  IN process(process_data(s, grads_list, strategy))

\* ConvKFCBasicMultiIndepFB.instantiate_factors: what _process_data returns is
\* a tuple or a list, and line 1394 reads its .shape.
ConvMultiIndep_instantiate_factors(s, grads_list, damping, strategy) ==
  LET wire(r, s1) ==
        IF r.err # "ok" THEN Raised(r.err, s1)
        ELSE Raised("AttributeError", s1)
      process(r) == wire(r, [s EXCEPT !.num_uses = r.num_uses])
  IN process(process_data(s, grads_list, strategy))

\* An instantiate_factors that leaves register_cov_dt1 to a later call.
Series_instantiate_factors_bare(s, grads_list, damping, strategy) ==
  LET wire(r, s1) ==
        IF r.err # "ok" THEN Raised(r.err, s1)
        ELSE
          [err |-> "ok",
           self |-> setup_damping(
             [s1 EXCEPT
                !.input_factor = make_or_get_factor("FullyConnectedMultiKF",
                                    r.inputs, NoColl, r.num_uses, 0),
                !.output_factor = make_or_get_factor("FullyConnectedMultiKF",
                                     NoColl, r.grads, r.num_uses, 0)],
             damping, r.num_uses),
           fcalls |-> <<FactorCall("block", "_setup_damping", 0, NoThunk)>>]
      process(r) == wire(r, [s EXCEPT !.num_uses = r.num_uses])
  IN process(process_data(s, grads_list, strategy))

\* FullyConnectedSeriesFB.instantiate_factors: the calls it makes on the
\* factors and the _setup_damping call that follows them.
Series_instantiate_factors(s, grads_list, damping, strategy) ==
  LET wire(r, s1) ==
        IF r.err # "ok" THEN Raised(r.err, s1)
        ELSE
          [err |-> "ok",
           self |-> setup_damping(
             [s1 EXCEPT
                !.input_factor = make_or_get_factor("FullyConnectedMultiKF",
                                    r.inputs, NoColl, r.num_uses, 0),
                !.output_factor = make_or_get_factor("FullyConnectedMultiKF",
                                     NoColl, r.grads, r.num_uses, 0)],
             damping, r.num_uses),
           fcalls |-> <<FactorCall("input", "register_cov_dt1", 0, NoThunk),
                        FactorCall("output", "register_cov_dt1", 0, NoThunk),
                        FactorCall("block", "_setup_damping", 0, NoThunk)>>]
      process(r) == wire(r, [s EXCEPT !.num_uses = r.num_uses])
  IN process(process_data(s, grads_list, strategy))

\* instantiate_factors(grads_list, damping) of the block's class.
instantiate_factors(s, grads_list, damping, strategy) ==
  CASE s.kind = "FullFB" ->
         Batch_instantiate_factors(s, grads_list, damping, "FullFactor")
    [] s.kind = "NaiveDiagonalFB" ->
         Batch_instantiate_factors(s, grads_list, damping, "NaiveDiagonalFactor")
    [] s.kind = "FullyConnectedDiagonalFB" ->
         FCDiag_instantiate_factors(s, grads_list, damping, strategy)
    [] s.kind \in {"ConvDiagonalFB", "DepthwiseConvDiagonalFB"} ->
         ConvDiag_instantiate_factors(s, grads_list, damping, strategy)
    [] s.kind = "EmbeddingKFACFB" ->
         Kron_instantiate_factors(s, grads_list, damping, strategy,
            "EmbeddingInputKroneckerFactor", "FullyConnectedKroneckerFactor")
    [] s.kind = "FullyConnectedKFACBasicFB" ->
         Kron_instantiate_factors(s, grads_list, damping, strategy,
            "FullyConnectedKroneckerFactor", "FullyConnectedKroneckerFactor")
    [] s.kind \in {"ConvKFCBasicFB", "DepthwiseConvKFCBasicFB"} ->
         ConvKFC_instantiate_factors(s, grads_list, damping, strategy)
    [] s.kind = "FullyConnectedMultiIndepFB" ->
         MultiIndep_instantiate_factors(s, grads_list, damping, strategy,
            "FullyConnectedMultiKF")
    [] s.kind = "ConvKFCBasicMultiIndepFB" ->
         ConvMultiIndep_instantiate_factors(s, grads_list, damping, strategy)
    [] s.kind = "EmbeddingKFACMultiIndepFB" ->
         MultiIndep_instantiate_factors(s, grads_list, damping, strategy,
            "EmbeddingInputKroneckerFactor")
    [] s.kind = "FullyConnectedSeriesFB" ->
         Series_instantiate_factors(s, grads_list, damping, strategy)

\* ------------------------------------------- matrix powers on the factors
FactorOf(s, role) ==
  CASE role = "factor" -> s.factor
    [] role = "input" -> s.input_factor
    [] role = "output" -> s.output_factor

\* KroneckerProductFB._renorm_coeff and its overrides; the override of
\* FullyConnectedSeriesFB is "assert False".
renorm_coeff(s) ==
  CASE s.kind \in {"ConvKFCBasicFB", "DepthwiseConvKFCBasicFB"} ->
         [err |-> "ok", val |-> s.num_locations]
    [] s.kind \in {"FullyConnectedMultiIndepFB",
                   "EmbeddingKFACMultiIndepFB"} ->
         [err |-> "ok", val |-> s.num_uses]
    [] s.kind = "ConvKFCBasicMultiIndepFB" ->
         [err |-> "ok", val |-> s.num_locations * s.num_uses]
    [] s.kind = "FullyConnectedSeriesFB" ->
         [err |-> "AssertionError", val |-> None]
    [] OTHER -> [err |-> "ok", val |-> 1]

Done(fcalls, scaled) == [err |-> "ok", fcalls |-> fcalls, scaled |-> scaled]
Rejected(err) == [err |-> err, fcalls |-> <<>>, scaled |-> FALSE]

\* A register_matpower that looks at the option before the exponent.
Series_register_matpower_late(s, exp) ==
  IF s.option = option1 THEN
    Done(<<FactorCall("input", "register_option1quants", 0,
                      s.input_damping_func),
           FactorCall("output", "register_option1quants", 0,
                      s.output_damping_func)>>, FALSE)
  ELSE IF s.option = option2 THEN
    Done(<<FactorCall("input", "register_option2quants", 0,
                      s.input_damping_func),
           FactorCall("output", "register_option2quants", 0,
                      s.output_damping_func)>>, FALSE)
  ELSE IF exp # -1 THEN Rejected("NotImplementedError")
  ELSE Rejected("ValueError")

\* FullyConnectedSeriesFB.register_matpower
Series_register_matpower(s, exp) ==
  IF exp # -1 THEN Rejected("NotImplementedError")
  ELSE IF s.option = option1 THEN
    Done(<<FactorCall("input", "register_option1quants", 0,
                      s.input_damping_func),
           FactorCall("output", "register_option1quants", 0,
                      s.output_damping_func)>>, FALSE)
  ELSE IF s.option = option2 THEN
    Done(<<FactorCall("input", "register_option2quants", 0,
                      s.input_damping_func),
           FactorCall("output", "register_option2quants", 0,
                      s.output_damping_func)>>, FALSE)
  ELSE Rejected("ValueError")

\* A register_matpower whose diagonal blocks register the power on their
\* factor, as FullFB does.
register_matpower_eager(s, exp) ==
  IF s.kind \in {"FullFB"} \cup DiagonalKinds THEN
    Done(<<FactorCall("factor", "register_matpower", exp, s.damping_func)>>,
         FALSE)
  ELSE IF s.kind = "FullyConnectedSeriesFB" THEN
    Series_register_matpower(s, exp)
  ELSE
    Done(<<FactorCall("input", "register_matpower", exp,
                      s.input_damping_func),
           FactorCall("output", "register_matpower", exp,
                      s.output_damping_func)>>, FALSE)

\* register_matpower(exp) of the block's class.
register_matpower(s, exp) ==
  IF s.kind = "FullFB" THEN
    Done(<<FactorCall("factor", "register_matpower", exp, s.damping_func)>>,
         FALSE)
  ELSE IF s.kind \in DiagonalKinds THEN Done(<<>>, FALSE)
  ELSE IF s.kind = "FullyConnectedSeriesFB" THEN
    Series_register_matpower(s, exp)
  ELSE
    Done(<<FactorCall("input", "register_matpower", exp,
                      s.input_damping_func),
           FactorCall("output", "register_matpower", exp,
                      s.output_damping_func)>>, FALSE)

\* A multiply_matpower that rejects an option it does not know, as
\* register_matpower does.
Series_multiply_matpower_checked(s, exp) ==
  IF exp # -1 THEN Rejected("NotImplementedError")
  ELSE IF s.option = option1 THEN
    Done(<<FactorCall("input", "get_option1quants", 0, s.input_damping_func),
           FactorCall("output", "get_option1quants", 0,
                      s.output_damping_func)>>, FALSE)
  ELSE IF s.option = option2 THEN
    Done(<<FactorCall("input", "get_option2quants", 0, s.input_damping_func),
           FactorCall("output", "get_option2quants", 0,
                      s.output_damping_func)>>, FALSE)
  ELSE Rejected("ValueError")

\* FullyConnectedSeriesFB.multiply_matpower (the calls it makes on the factors)
Series_multiply_matpower(s, exp) ==
  IF exp # -1 THEN Rejected("NotImplementedError")
  ELSE IF s.option = option1 THEN
    Done(<<FactorCall("input", "get_option1quants", 0, s.input_damping_func),
           FactorCall("output", "get_option1quants", 0,
                      s.output_damping_func)>>, FALSE)
  ELSE IF s.option = option2 THEN
    Done(<<FactorCall("input", "get_option2quants", 0, s.input_damping_func),
           FactorCall("output", "get_option2quants", 0,
                      s.output_damping_func)>>, FALSE)
  ELSE Done(<<>>, FALSE)

\* A multiply_matpower that hands each factor the other factor's thunk.
multiply_matpower_swapped(s, exp) ==
  IF s.kind \in BatchKinds \cup DiagonalKinds THEN
    Done(<<FactorCall("factor", "left_multiply_matpower", exp,
                      s.damping_func)>>, FALSE)
  ELSE IF s.kind = "FullyConnectedSeriesFB" THEN
    Series_multiply_matpower(s, exp)
  ELSE
    Done(<<FactorCall("output", "right_multiply_matpower", exp,
                      s.input_damping_func),
           FactorCall("input", "left_multiply_matpower", exp,
                      s.output_damping_func)>>,
         renorm_coeff(s).val # 1)

\* multiply_matpower(vector, exp) of the block's class: the calls made on the
\* factors, in order, and whether the result was scaled by c**exp.
multiply_matpower(s, exp) ==
  IF s.kind \in BatchKinds \cup DiagonalKinds THEN
    Done(<<FactorCall("factor", "left_multiply_matpower", exp,
                      s.damping_func)>>, FALSE)
  ELSE IF s.kind = "FullyConnectedSeriesFB" THEN
    Series_multiply_matpower(s, exp)
  ELSE
    Done(<<FactorCall("output", "right_multiply_matpower", exp,
                      s.output_damping_func),
           FactorCall("input", "left_multiply_matpower", exp,
                      s.input_damping_func)>>,
         renorm_coeff(s).val # 1)

\* The registrations a sequence of factor calls leaves on the factors.
Registered(s, fcalls) ==
  {Registration(FactorOf(s, fcalls[i].role), fcalls[i].method,
                fcalls[i].exp, fcalls[i].thunk) :
     i \in {j \in DOMAIN fcalls :
              fcalls[j].method \in {"register_matpower", "register_cov_dt1",
                                    "register_option1quants",
                                    "register_option2quants"}}}

\* ----------------------------------------------------------- the calls
Call(op, err, grads, damping, exp, again, pre_num_uses, fcalls, scaled) ==
  [op |-> op, err |-> err, grads |-> grads, damping |-> damping, exp |-> exp,
   again |-> again, pre_num_uses |-> pre_num_uses, fcalls |-> fcalls,
   scaled |-> scaled]
NoCall == Call("__init__", "ok", <<>>, 0, 0, FALSE, None, <<>>, FALSE)

Instantiated(s) == s.factor # NoFactor \/ s.input_factor # NoFactor

\* Use counts a caller may give the towers of one source.
UniformTowers(T, U) == [t \in 1..T |-> U]
TowerSpecs ==
  UNION {[1..T -> 1..MaxUses] : T \in 1..MaxTowers}

\* grads_list shapes: spec[s][t] is the number of uses of tower t of source s.
\* Well-formed: every source has T towers of U uses.
UniformGradSpecs(T) ==
  {[s \in 1..S |-> UniformTowers(T, U)] : S \in 1..MaxSources, U \in 1..MaxUses}
\* Any: a uniform shape in which at most one source has another tower count or
\* one tower another use count.
AnyGradSpecs ==
  LET base == UNION {UniformGradSpecs(T) : T \in 1..MaxTowers} IN
  base
  \cup UNION {{[g EXCEPT ![s] = UniformTowers(T2, g[s][1])] :
                 s \in DOMAIN g, T2 \in 1..MaxTowers} : g \in base}
  \cup UNION {UNION {{[g EXCEPT ![s][t] = U2] :
                        t \in DOMAIN g[s], U2 \in 1..MaxUses} :
                     s \in DOMAIN g} : g \in base}

\* The grads_list of a shape, in list format or with the uses pre-folded.
GradsList(spec, fmt) ==
  [s \in DOMAIN spec |->
     [t \in DOMAIN spec[s] |->
        IF fmt = "list" THEN ListDatum("grad", s, t, spec[s][t])
        ELSE TensorDatum("grad", s, t)]]

Formats(s) == IF s.kind \in MultiUseKinds THEN {"list", "tensor"} ELSE {"tensor"}

\* Constant sets, one per documented format.
WellFormedOf(T, fmt) == {GradsList(g, fmt) : g \in UniformGradSpecs(T)}
WellFormedTable ==
  [T \in 1..MaxTowers |->
     [fmt \in {"list", "tensor"} |-> WellFormedOf(T, fmt)]]
AnyGradsTable ==
  [fmt \in {"list", "tensor"} |-> {GradsList(g, fmt) : g \in AnyGradSpecs}]

WellFormedGrads(s) ==
  LET T == IF s.kind \in BatchKinds THEN 1 ELSE Len(s.inputs) IN
  UNION {WellFormedTable[T][fmt] : fmt \in Formats(s)}
AnyGrads(s) == UNION {AnyGradsTable[fmt] : fmt \in Formats(s)}

\* What register_additional_tower may be given as the next tower's inputs: a
\* single-use block gets a tensor; a multi-use block gets every tower in one
\* format, and with uniform set every list has the length of the first.
TowerData(s, uniform) ==
  LET t == Len(s.inputs) + 1 IN
  IF s.kind \in SingleUseKinds THEN {TensorDatum("in", 0, t)}
  ELSE
    (IF s.inputs = <<>> \/ ~ s.inputs[1].list
     THEN {TensorDatum("in", 0, t)} ELSE {})
    \cup
    (IF s.inputs = <<>> \/ s.inputs[1].list
     THEN {ListDatum("in", 0, t, n) :
             n \in {m \in 1..MaxUses :
                      (uniform /\ s.inputs # <<>>)
                         => m = Len(s.inputs[1].elts)}}
     ELSE {})

\* A covariance is kept by its rank (1: the diagonal of a diagonal matrix,
\* 2: a full matrix) and its diagonal entries.
Cov(rank, diag) == [rank |-> rank, diag |-> diag]
InitialCov == [input |-> Cov(2, <<1>>), output |-> Cov(2, <<1>>)]

Init ==
  /\ TOWER_STRATEGY \in TowerStrategies
  /\ NORMALIZE_DAMPING_POWER = 1
  /\ PI_TYPE = "tracenorm"
  /\ cov = InitialCov
  /\ \E kind \in Kinds :
       \E num_uses \in (IF kind \in MultiUseKinds
                        THEN {None} \cup (1..MaxUses) ELSE {None}) :
         \E option \in (IF kind = "FullyConnectedSeriesFB"
                        THEN SeriesOptions ELSE {option2}) :
           self = NewBlock(kind, num_uses, option)
  /\ registrations = {}
  /\ call = NoCall
  /\ n_inst = 0

\* InputOutputMultiTower.num_registered_towers, with its assertion.
IO_num_registered_towers(s) ==
  IF Len(s.inputs) = Len(s.outputs)
  THEN [err |-> "ok", val |-> Len(s.inputs)]
  ELSE [err |-> "AssertionError", val |-> None]

\* InputOutputMultiTower.tensors_to_compute_grads()
tensors_to_compute_grads(s) == Coll("tuple", s.outputs)

\* A register_additional_tower that forgets the outputs.
IO_register_additional_tower_inputs_only(uniform) ==
  /\ self.kind \in InputOutputKinds
  /\ ~ Instantiated(self)
  /\ Len(self.inputs) < MaxTowers
  /\ \E d \in TowerData(self, uniform) :
       self' = [self EXCEPT !.inputs = Append(@, d)]
  /\ call' = Call("register_additional_tower", "ok", <<>>, 0, 0,
                  FALSE, self.num_uses, <<>>, FALSE)
  /\ UNCHANGED <<env, registrations, n_inst>>

\* InputOutputMultiTower.register_additional_tower(inputs, outputs)
IO_register_additional_tower(uniform) ==
  /\ self.kind \in InputOutputKinds
  /\ ~ Instantiated(self)
  /\ Len(self.inputs) < MaxTowers
  /\ \E d \in TowerData(self, uniform) :
       self' = [self EXCEPT
                  !.inputs = Append(@, d),
                  !.outputs = Append(@, Tensor("out", 0, Len(@) + 1, 0))]
  /\ call' = Call("register_additional_tower", "ok", <<>>, 0, 0,
                  FALSE, self.num_uses, <<>>, FALSE)
  /\ UNCHANGED <<env, registrations, n_inst>>

\* FullFB / NaiveDiagonalFB .register_additional_tower(batch_size)
RegisterBatchTower ==
  /\ self.kind \in BatchKinds
  /\ ~ Instantiated(self)
  /\ Len(self.batch_sizes) < MaxTowers
  /\ \E batch_size \in {4, 6} :
       self' = [self EXCEPT !.batch_sizes = Append(@, batch_size)]
  /\ call' = Call("register_additional_tower", "ok", <<>>, 0, 0,
                  FALSE, self.num_uses, <<>>, FALSE)
  /\ UNCHANGED <<env, registrations, n_inst>>

\* instantiate_factors(grads_list, damping): the whole call, a raise included.
InstantiateWith(grads_list, damping) ==
  \E r \in {instantiate_factors(self, grads_list, damping, TOWER_STRATEGY)} :
  /\ self' = r.self
  /\ registrations' = registrations \cup Registered(r.self, r.fcalls)
  /\ call' = Call("instantiate_factors", r.err, grads_list, damping, 0,
                  Instantiated(self), self.num_uses, r.fcalls, FALSE)
  /\ n_inst' = IF r.err = "ok" THEN n_inst + 1 ELSE n_inst
  /\ UNCHANGED env

CanInstantiate ==
  self.kind \in InputOutputKinds => self.inputs # <<>>

RegisterAdditionalTower == IO_register_additional_tower(TRUE)

\* The first wiring of the block, with gradients of the documented shape.
InstantiateFactors ==
  /\ CanInstantiate
  /\ n_inst = 0
  /\ \E grads_list \in WellFormedGrads(self), damping \in Dampings :
       InstantiateWith(grads_list, damping)

\* A further instantiate_factors call on the wired block, with the same
\* gradients and any damping.
InstantiateAgain ==
  /\ Instantiated(self)
  /\ call.op = "instantiate_factors"
  /\ 0 < n_inst /\ n_inst < MaxInst
  /\ \E damping \in Dampings : InstantiateWith(call.grads, damping)

\* register_matpower(exp) / multiply_matpower(vector, exp), called as op.
RegisterWith(op, exp) ==
  /\ Instantiated(self)
  /\ \E r \in {register_matpower(self, exp)} :
       /\ registrations' = registrations \cup Registered(self, r.fcalls)
       /\ call' = Call(op, r.err, <<>>, 0, exp, TRUE, self.num_uses,
                       r.fcalls, r.scaled)
  /\ UNCHANGED <<env, self, n_inst>>

MultiplyWith(op, exp) ==
  /\ Instantiated(self)
  /\ \E r \in {multiply_matpower(self, exp)} :
       call' = Call(op, r.err, <<>>, 0, exp, TRUE, self.num_uses,
                    r.fcalls, r.scaled)
  /\ UNCHANGED <<env, self, registrations, n_inst>>

RegisterMatpower == \E exp \in Exps : RegisterWith("register_matpower", exp)
\* FisherBlock.register_inverse
RegisterInverse == RegisterWith("register_inverse", -1)
MultiplyMatpower == \E exp \in Exps : MultiplyWith("multiply_matpower", exp)
\* FisherBlock.multiply_inverse
MultiplyInverse == MultiplyWith("multiply_inverse", -1)
\* FisherBlock.multiply
Multiply == MultiplyWith("multiply", 1)

Next ==
  \/ RegisterAdditionalTower
  \/ RegisterBatchTower
  \/ InstantiateFactors
  \/ InstantiateAgain
  \/ RegisterMatpower
  \/ RegisterInverse
  \/ MultiplyMatpower
  \/ MultiplyInverse
  \/ Multiply

Spec == Init /\ [][Next]_vars

\* The same block fed towers and gradients of any shape: one
\* instantiate_factors attempt after each registration, until one returns.
RegisterAnyTower == IO_register_additional_tower(FALSE)

InstantiateAnyData ==
  /\ CanInstantiate
  /\ n_inst = 0
  /\ call.op # "instantiate_factors"
  /\ \E grads_list \in AnyGrads(self) :
       InstantiateWith(grads_list, 1)

NextData ==
  \/ RegisterAnyTower
  \/ RegisterBatchTower
  \/ InstantiateAnyData

SpecData == Init /\ [][NextData]_vars

\* ------------------------------------------- the module-level functions
\* Values of normalize_damping_power and pi_type; "None" is the None of
\* pi_type and "bogus" any string that names no mode.
DampingPowers == {0, 1, 2}
PiTypes == {"tracenorm", "off", "bogus"}

\* set_global_constants(normalize_damping_power=None, pi_type=None): the two
\* constants after the call.
set_global_constants(normalize_damping_power, pi_type, power_now, pi_now) ==
  [NORMALIZE_DAMPING_POWER |->
     IF normalize_damping_power # None THEN normalize_damping_power
     ELSE power_now,
   PI_TYPE |-> IF pi_type # "None" THEN pi_type ELSE pi_now]

SetGlobalConstants ==
  /\ \E normalize_damping_power \in {None} \cup DampingPowers,
        pi_type \in {"None"} \cup PiTypes :
       \E r \in {set_global_constants(normalize_damping_power, pi_type,
                                      NORMALIZE_DAMPING_POWER, PI_TYPE)} :
          /\ NORMALIZE_DAMPING_POWER' = r.NORMALIZE_DAMPING_POWER
          /\ PI_TYPE' = r.PI_TYPE
  /\ UNCHANGED <<TOWER_STRATEGY, cov, self, registrations, call, n_inst>>

\* The functions keep no state between calls: a behaviour observes one call
\* of one of them, made under the constants set before it.
NoCallYet == call.op = "__init__"

\* A call of a module-level function or of a PackagedFunc, and how it ended.
FuncCall(op, args, err, result) ==
  [op |-> op, args |-> args, err |-> err, result |-> result]

\* Covariances of rank 1 and 2 with positive entries, and one of rank 3.
Diagonals == {<<1>>, <<4>>, <<1, 1>>, <<1, 3>>, <<2, 2>>}
Covs == {Cov(rank, diag) : rank \in {1, 2}, diag \in Diagonals}
          \cup {Cov(3, <<1>>)}
\* Damping values: some rationals and some square roots of rationals.
DampingValues ==
  {Num(1, 1), Num(2, 1), Num(1, 2), Sqrt(Num(2, 1)), Sqrt(Num(1, 2))}

ComputePiAdjustedDamping ==
  /\ NoCallYet
  /\ \E left_cov \in Covs, right_cov \in Covs, damping \in DampingValues :
       \E r \in {compute_pi_adjusted_damping(left_cov, right_cov, damping,
                                             PI_TYPE)} :
          call' = FuncCall("compute_pi_adjusted_damping",
                           [left_cov |-> left_cov, right_cov |-> right_cov,
                            damping |-> damping, pi_type |-> PI_TYPE],
                           r.err, r.val)
  /\ UNCHANGED <<env, self, registrations, n_inst>>

\* A set_global_constants call that is observed.
SetGlobalConstantsCall ==
  /\ NoCallYet
  /\ \E normalize_damping_power \in {None} \cup DampingPowers,
        pi_type \in {"None"} \cup PiTypes :
       \E r \in {set_global_constants(normalize_damping_power, pi_type,
                                      NORMALIZE_DAMPING_POWER, PI_TYPE)} :
          /\ NORMALIZE_DAMPING_POWER' = r.NORMALIZE_DAMPING_POWER
          /\ PI_TYPE' = r.PI_TYPE
          /\ call' = FuncCall("set_global_constants",
                        [normalize_damping_power |-> normalize_damping_power,
                         pi_type |-> pi_type],
                        "ok", None)
  /\ UNCHANGED <<TOWER_STRATEGY, cov, self, registrations, n_inst>>

Replications == 1..3
NormalizeDamping ==
  /\ NoCallYet
  /\ \E damping \in DampingValues, num_replications \in Replications :
       call' = FuncCall("normalize_damping",
                  [damping |-> damping, num_replications |-> num_replications],
                  "ok",
                  normalize_damping(damping, num_replications,
                                    NORMALIZE_DAMPING_POWER))
  /\ UNCHANGED <<env, self, registrations, n_inst>>

\* An optional argument: Python's None, or a value.
Absent == [given |-> FALSE]
Given(v) == [given |-> TRUE, val |-> v]

\* utils.is_data_format_channel_last(data_format): None counts as
\* channels-last, a format string does when it ends in "C".
is_data_format_channel_last(data_format) ==
  ~ data_format.given \/ data_format.val \in {"NHWC", "NWC", "NDHWC"}

\* What a constructor that raises leaves behind: no block.
NoBlock == NewBlock("unset", None, option2)

\* A constructor that accepts every data format.
ConvDiagonalFB_init_any_format(params, strides, data_format, dilations) ==
  LET dilations_or_default ==
        IF ~ dilations.given THEN <<1, 1, 1, 1>> ELSE dilations.val
      filter_shape == params.filter_shape
  IN IF Len(strides) # 4 THEN Raised("ValueError", NoBlock)
     ELSE IF Len(dilations_or_default) # 4 THEN Raised("ValueError", NoBlock)
     ELSE IF Len(filter_shape) # 4 THEN Raised("ValueError", NoBlock)
     ELSE Returned(NewBlock("ConvDiagonalFB", None, option2))

\* ConvDiagonalFB.__init__(layer_collection, params, strides, padding,
\* data_format=None, dilations=None); params is kept by its filter's shape
\* and whether a bias comes with it.
ConvDiagonalFB_init(params, strides, data_format, dilations) ==
  LET dilations_or_default ==
        IF ~ dilations.given THEN <<1, 1, 1, 1>> ELSE dilations.val
      filter_shape == params.filter_shape
  IN IF Len(strides) # 4 THEN Raised("ValueError", NoBlock)
     ELSE IF Len(dilations_or_default) # 4 THEN Raised("ValueError", NoBlock)
     ELSE IF ~ is_data_format_channel_last(data_format)
     THEN Raised("ValueError", NoBlock)
     ELSE IF Len(filter_shape) # 4 THEN Raised("ValueError", NoBlock)
     ELSE Returned(NewBlock("ConvDiagonalFB", None, option2))

StridesGiven == {<<2, 2>>, <<1, 2, 2, 1>>, <<1, 1, 2, 2, 1>>}
DilationsGiven ==
  {Absent, Given(<<>>), Given(<<2, 2>>), Given(<<1, 2, 2, 1>>)}
DataFormats == {Absent, Given("NHWC"), Given("NCHW")}
ParamsGiven ==
  {[has_bias |-> b, filter_shape |-> sh] :
     b \in BOOLEAN, sh \in {<<3, 2, 4>>, <<3, 3, 2, 4>>, <<1, 3, 3, 2, 4>>}}

\* Constructing a ConvDiagonalFB; the new block replaces the one at hand.
ConstructConvDiagonalFB ==
  /\ NoCallYet
  /\ \E params \in ParamsGiven, strides \in StridesGiven,
        data_format \in DataFormats, dilations \in DilationsGiven :
       \E r \in {ConvDiagonalFB_init(params, strides, data_format,
                                     dilations)} :
          /\ self' = IF r.err = "ok" THEN r.self ELSE self
          /\ call' = FuncCall("ConvDiagonalFB",
                        [params |-> params, strides |-> strides,
                         data_format |-> data_format,
                         dilations |-> dilations],
                        r.err, None)
  /\ UNCHANGED <<env, registrations, n_inst>>

\* Shapes [batch, spatial..., channels] and strides (<<>>: None).
MaxSpatial == 10
InputShapes ==
  {<<b, l, c>> : b \in {1, 2}, l \in 1..MaxSpatial, c \in {1, 3}}
    \cup {<<2, h, w, 3>> : h \in {3, 4}, w \in {3, 4}}
StrideChoices == {<<>>, <<1>>, <<2>>, <<3>>, <<2, 2>>, <<1, 2, 2, 1>>}

NumConvLocations ==
  /\ NoCallYet
  /\ \E input_shape \in InputShapes, strides \in StrideChoices :
       call' = FuncCall("num_conv_locations",
                        [input_shape |-> input_shape, strides |-> strides],
                        "ok", num_conv_locations(input_shape, strides))
  /\ UNCHANGED <<env, self, registrations, n_inst>>

\* ------------------------------------------------------- PackagedFunc
\* An identity element: a hashable value, or a function producing one.
Hashable(v) == [callable |-> FALSE, val |-> v]
Producer(v) == [callable |-> TRUE, produces |-> Hashable(v)]
\* isinstance(x, (tuple, list))
IsTupleOrList(x) == "container" \in DOMAIN x

\* PackagedFunc.__init__(func, func_id)
PackagedFunc_init(func, func_id) ==
  [func |-> func,
   func_id |-> IF IsTupleOrList(func_id) THEN func_id
               ELSE Coll("tuple", <<func_id>>)]

\* PackagedFunc.__call__()
PackagedFunc_call(pf) == pf.func.returns

\* A func_id property that hands out the declared elements as they are.
PackagedFunc_func_id_declared(pf) ==
  Coll("tuple", pf.func_id.items)

\* PackagedFunc.func_id
PackagedFunc_func_id(pf) ==
  Coll("tuple",
       [i \in DOMAIN pf.func_id.items |->
          IF pf.func_id.items[i].callable THEN pf.func_id.items[i].produces
          ELSE pf.func_id.items[i]])

IdValues == {"a", "b"}
IdElements == {Hashable(v) : v \in IdValues} \cup {Producer(v) : v \in IdValues}
MaxIdLen == 2
DeclaredIds ==
  IdElements
    \cup {Coll(c, items) :
            c \in {"tuple", "list"},
            items \in UNION {[1..n -> IdElements] : n \in 0..MaxIdLen}}
Funcs == {[returns |-> v] : v \in {1, 2}}

\* Building a PackagedFunc, reading its func_id and invoking it; a second
\* PackagedFunc is built around another function with the same declared id.
PackageFunc ==
  /\ NoCallYet
  /\ \E func \in Funcs, other \in Funcs, func_id \in DeclaredIds :
       \E pf \in {PackagedFunc_init(func, func_id)} :
          call' = FuncCall("PackagedFunc",
                           [func |-> func, other |-> other,
                            func_id |-> func_id], "ok",
                           [func_id |-> PackagedFunc_func_id(pf),
                            other_func_id |->
                              PackagedFunc_func_id(
                                PackagedFunc_init(other, func_id)),
                            value |-> PackagedFunc_call(pf)])
  /\ UNCHANGED <<env, self, registrations, n_inst>>

\* ------------------------------------------------- filter conversions
\* A rank-4 tensor is a sequence over height of sequences over width of
\* sequences over the third axis of sequences over the last axis.
shape(t) == <<Len(t), Len(t[1]), Len(t[1][1]), Len(t[1][1][1])>>
\* array_ops.zeros([h, w, c, m])
zeros(h, w, c, m) ==
  [y \in 1..h |-> [x \in 1..w |-> [j \in 1..c |-> [k \in 1..m |-> 0]]]]
\* array_ops.concat(tensors, axis=-2) and axis=-1
concat_in(tensors) ==
  [y \in DOMAIN tensors[1] |-> [x \in DOMAIN tensors[1][y] |->
     Flatten([e \in DOMAIN tensors |-> tensors[e][y][x]])]]
concat_out(tensors) ==
  [y \in DOMAIN tensors[1] |-> [x \in DOMAIN tensors[1][y] |->
     [j \in DOMAIN tensors[1][y][x] |->
        Flatten([e \in DOMAIN tensors |-> tensors[e][y][x][j]])]]]
\* filter[:, :, i:(i + 1), :], i counted from 0
slice_in(filter, i) ==
  [y \in DOMAIN filter |-> [x \in DOMAIN filter[y] |-> <<filter[y][x][i + 1]>>]]
\* array_ops.reshape(filter, [h, w, in_channels, in_channels, multiplier])
split_out(filter, in_channels, channel_multiplier) ==
  [y \in DOMAIN filter |-> [x \in DOMAIN filter[y] |->
     [j \in 1..in_channels |-> [a \in 1..in_channels |->
        [k \in 1..channel_multiplier |->
           filter[y][x][j][(a - 1) * channel_multiplier + k]]]]]]
\* reshape(filter[:, :, i, a, :], [h, w, 1, multiplier]), i and a from 0
slice_block(filter5, i, a) ==
  [y \in DOMAIN filter5 |-> [x \in DOMAIN filter5[y] |->
     <<filter5[y][x][i + 1][a + 1]>>]]

\* A forward transform that puts the zeros for the later channels first.
depthwise_conv2d_filter_to_conv2d_filter_swapped(filter) ==
  LET sh == shape(filter)
      in_channels == sh[3]
      block(i) ==
        concat_in(
          (IF i + 1 < in_channels
           THEN <<zeros(sh[1], sh[2], in_channels - (i + 1), sh[4])>>
           ELSE <<>>)
          \o <<slice_in(filter, i)>>
          \o (IF i > 0 THEN <<zeros(sh[1], sh[2], i, sh[4])>> ELSE <<>>))
  IN concat_out([n \in 1..in_channels |-> block(n - 1)])

\* depthwise_conv2d_filter_to_conv2d_filter(filter)
depthwise_conv2d_filter_to_conv2d_filter(filter) ==
  LET sh == shape(filter)
      in_channels == sh[3]
      block(i) ==
        concat_in(
          (IF i > 0 THEN <<zeros(sh[1], sh[2], i, sh[4])>> ELSE <<>>)
          \o <<slice_in(filter, i)>>
          \o (IF i + 1 < in_channels
              THEN <<zeros(sh[1], sh[2], in_channels - (i + 1), sh[4])>>
              ELSE <<>>))
  IN concat_out([n \in 1..in_channels |-> block(n - 1)])

\* An inverse transform that reads every channel from the first block.
conv2d_filter_to_depthwise_conv2d_filter_first(filter) ==
  LET sh == shape(filter) IN
  IF sh[4] % sh[3] # 0 THEN [err |-> "ValueError", val |-> None]
  ELSE
    LET split == split_out(filter, sh[3], sh[4] \div sh[3]) IN
    [err |-> "ok",
     val |-> concat_in([n \in 1..sh[3] |-> slice_block(split, n - 1, 0)])]

\* conv2d_filter_to_depthwise_conv2d_filter(filter)
conv2d_filter_to_depthwise_conv2d_filter(filter) ==
  LET sh == shape(filter) IN
  IF sh[4] % sh[3] # 0 THEN [err |-> "ValueError", val |-> None]
  ELSE
    LET split == split_out(filter, sh[3], sh[4] \div sh[3]) IN
    [err |-> "ok",
     val |-> concat_in([n \in 1..sh[3] |-> slice_block(split, n - 1, n - 1)])]

\* Filters of every small shape: all entries distinct and non-zero, all
\* zero, all one, or zero at every other entry.
MaxFilterSide == 2
MaxInChannels == 3
MaxOutChannels == 4
FilterOf(h, w, c, m, pattern) ==
  [y \in 1..h |-> [x \in 1..w |-> [j \in 1..c |-> [k \in 1..m |->
     LET label == (((y - 1) * w + (x - 1)) * c + (j - 1)) * m + k IN
     CASE pattern = "labels" -> label
       [] pattern = "zeros" -> 0
       [] pattern = "ones" -> 1
       [] pattern = "sparse" -> IF label % 2 = 0 THEN label ELSE 0]]]]
Filters ==
  {FilterOf(h, w, c, m, pattern) :
     h \in 1..MaxFilterSide, w \in 1..MaxFilterSide,
     c \in 1..MaxInChannels, m \in 1..MaxOutChannels,
     pattern \in {"labels", "zeros", "ones", "sparse"}}

\* The forward transform of a depthwise filter, and the inverse of the result.
DepthwiseToConv2d ==
  /\ NoCallYet
  /\ \E filter \in Filters :
       \E forward \in {depthwise_conv2d_filter_to_conv2d_filter(filter)} :
          call' = FuncCall("depthwise_conv2d_filter_to_conv2d_filter",
                     [filter |-> filter], "ok",
                     [forward |-> forward,
                      back |-> conv2d_filter_to_depthwise_conv2d_filter(forward)])
  /\ UNCHANGED <<env, self, registrations, n_inst>>

Conv2dToDepthwise ==
  /\ NoCallYet
  /\ \E filter \in Filters :
       \E r \in {conv2d_filter_to_depthwise_conv2d_filter(filter)} :
          call' = FuncCall("conv2d_filter_to_depthwise_conv2d_filter",
                           [filter |-> filter], r.err, r.val)
  /\ UNCHANGED <<env, self, registrations, n_inst>>

\* ------------------------------------------------------ damping thunks
\* The identity a block declares for a damping thunk: (damping,) for the
\* constant thunks, damping_id of ConvDiagonalFB.instantiate_factors, and
\* damping_id + ("ref", ref) of KroneckerProductFB._setup_damping.  A factor's
\* name is the factor.
damping_id(thunk, s) ==
  CASE thunk.kind = "const" -> <<Hashable(thunk.damping)>>
    [] thunk.kind = "mult_normalize_damping" ->
         <<Hashable(thunk.norm), Hashable("mult"),
           Hashable("normalize_damping"), Hashable(thunk.damping),
           Hashable(thunk.norm)>>
    [] thunk.kind = "compute_pi_adjusted_damping" ->
         <<Hashable("compute_pi_adjusted_damping"),
           Hashable("cov"), Hashable(s.input_factor),
           Hashable("cov"), Hashable(s.output_factor)>>
         \o (IF thunk.norm # None
             THEN <<Hashable("normalize_damping"), Hashable(thunk.damping),
                    Hashable(thunk.norm)>>
             ELSE <<Hashable(thunk.damping)>>)
         \o <<Hashable("power"), Hashable(Num(1, 2)),
              Hashable("ref"), Hashable(thunk.ref)>>

\* What invoking a damping thunk returns under the constants and the
\* covariances of the moment; an unknown PI_TYPE makes
\* compute_pi_adjusted_damping return None, and None[ref] raises TypeError.
damping_func(thunk, s, power, pi_type, covs) ==
  CASE thunk.kind = "const" -> [err |-> "ok", val |-> Num(thunk.damping, 1)]
    [] thunk.kind = "mult_normalize_damping" ->
         [err |-> "ok",
          val |-> Mul(Num(s.num_locations, 1),
                      normalize_damping(Num(thunk.damping, 1),
                                        s.num_locations, power))]
    [] thunk.kind = "compute_pi_adjusted_damping" ->
         LET maybe_normalized_damping ==
               IF thunk.norm # None
               THEN normalize_damping(Num(thunk.damping, 1), thunk.norm, power)
               ELSE Num(thunk.damping, 1)
             pick(r) ==
               IF r.err # "ok" THEN [err |-> r.err, val |-> None]
               ELSE IF pi_type \notin {"tracenorm", "off"}
                    THEN [err |-> "TypeError", val |-> None]
               ELSE [err |-> "ok", val |-> r.val[thunk.ref + 1]]
         IN pick(compute_pi_adjusted_damping(covs.input, covs.output,
                                             Sqrt(maybe_normalized_damping),
                                             pi_type))

\* The damping thunks an instantiated block holds.
DampingThunks(s) ==
  IF s.kind \in KroneckerKinds
  THEN {s.input_damping_func, s.output_damping_func}
  ELSE {s.damping_func}

\* ------------------------------------------------- values of a block
\* x ** exp for an integer exp.
matpower(x, exp) ==
  IF exp >= 0 THEN Pow(x, exp) ELSE Div(Num(1, 1), Pow(x, 0 - exp))

\* Matrices are sequences of rows of integers.
MatMul(a, b) ==
  [i \in DOMAIN a |-> [j \in DOMAIN b[1] |->
     Sum([k \in DOMAIN b |-> a[i][k] * b[k][j]])]]

\* FisherFactor.left_multiply_matpower(x, exp, damping_func) and
\* right_multiply_matpower: damped[exp] is the exp-th power of the damped
\* factor, which the factor computed when the power was registered.
left_multiply_matpower(x, damped, exp) == MatMul(damped[exp], x)
right_multiply_matpower(x, damped, exp) == MatMul(x, damped[exp])

RECURSIVE ApplyFactorCalls(_, _, _)
ApplyFactorCalls(fcalls, x, damped) ==
  IF fcalls = <<>> THEN x
  ELSE ApplyFactorCalls(Tail(fcalls),
         IF Head(fcalls).method = "right_multiply_matpower"
         THEN right_multiply_matpower(x, damped[Head(fcalls).role],
                                      Head(fcalls).exp)
         ELSE left_multiply_matpower(x, damped[Head(fcalls).role],
                                     Head(fcalls).exp),
         damped)

\* utils.layer_params_to_mat2d: a filter [h, w, in, out] becomes the matrix
\* [h * w * in, out]; a weight matrix is a filter with h = w = 1.
layer_params_to_mat2d(vector) == Flatten(Flatten(vector))
\* utils.mat2d_to_layer_params(vector, mat2d)
mat2d_to_layer_params(vector, mat2d) ==
  [y \in DOMAIN vector |-> [x \in DOMAIN vector[y] |->
     [j \in DOMAIN vector[y][x] |->
        mat2d[((y - 1) * Len(vector[1]) + (x - 1)) * Len(vector[1][1]) + j]]]]

\* A vector is an integer tensor times a positive scalar.
Scaled(scale, params) == [scale |-> scale, params |-> params]

\* What KroneckerProductFB.multiply_matpower(vector, exp) returns.
Kron_multiply_matpower(s, vector, exp, damped) ==
  LET value(r) ==
        IF r.err # "ok" THEN [err |-> r.err, val |-> None]
        ELSE [err |-> "ok",
              val |-> Scaled(
                 IF r.scaled
                 THEN Mul(matpower(Num(renorm_coeff(s).val, 1), exp),
                          vector.scale)
                 ELSE vector.scale,
                 mat2d_to_layer_params(vector.params,
                    ApplyFactorCalls(r.fcalls,
                       layer_params_to_mat2d(vector.params), damped)))]
  IN value(multiply_matpower(s, exp))

\* DepthwiseConvKFCBasicFB.multiply_matpower(vector, exp)
Depthwise_multiply_matpower(s, vector, exp, damped) ==
  LET project(r) ==
        IF r.err # "ok" THEN [err |-> r.err, val |-> None]
        ELSE [err |-> "ok", val |-> Scaled(r.scale, r.val)]
      convert(conv2d_result) ==
        IF conv2d_result.err # "ok" THEN conv2d_result
        ELSE project(
          [scale |-> conv2d_result.val.scale]
            @@ conv2d_filter_to_depthwise_conv2d_filter(
                 conv2d_result.val.params))
  IN convert(Kron_multiply_matpower(s,
        Scaled(vector.scale,
               depthwise_conv2d_filter_to_conv2d_filter(vector.params)),
        exp, damped))

\* multiply_matpower(vector, exp) of a Kronecker block's class, as a value.
multiply_matpower_value(s, vector, exp, damped) ==
  IF s.kind = "DepthwiseConvKFCBasicFB"
  THEN Depthwise_multiply_matpower(s, vector, exp, damped)
  ELSE Kron_multiply_matpower(s, vector, exp, damped)

\* utils.kronecker_product on the diagonals: entry (i, j) is left[i] * right[j].
kronecker_product(left, right) ==
  Cov(2, [n \in 1..(Len(left.diag) * Len(right.diag)) |->
            left.diag[((n - 1) \div Len(right.diag)) + 1]
              * right.diag[((n - 1) % Len(right.diag)) + 1]])

\* KroneckerProductFB.full_fisher_block()
full_fisher_block(s, covs) ==
  LET scale(c, block) ==
        IF c.err # "ok" THEN [err |-> c.err, val |-> None]
        ELSE [err |-> "ok",
              val |-> Cov(2, [n \in DOMAIN block.diag |->
                                c.val * block.diag[n]])]
  IN scale(renorm_coeff(s), kronecker_product(covs.input, covs.output))

\* The covariances the factors may hold after an update.
FactorCovs == {Cov(2, <<1>>), Cov(2, <<1, 3>>)}
UpdateCov ==
  /\ Instantiated(self)
  /\ \E input \in FactorCovs, output \in FactorCovs :
       cov' = [input |-> input, output |-> output]
  /\ UNCHANGED <<TOWER_STRATEGY, NORMALIZE_DAMPING_POWER, PI_TYPE,
                 self, registrations, call, n_inst>>

\* Invoking one of the block's damping thunks and reading its func_id.
InvokeDamping ==
  /\ Instantiated(self)
  /\ \E thunk \in DampingThunks(self) :
       \E r \in {damping_func(thunk, self, NORMALIZE_DAMPING_POWER, PI_TYPE,
                              cov)} :
          call' = FuncCall("damping_func", [thunk |-> thunk], r.err,
                     [func_id |->
                        PackagedFunc_func_id(
                          PackagedFunc_init([returns |-> r.val],
                             Coll("tuple", damping_id(thunk, self)))),
                      value |-> r.val])
  /\ UNCHANGED <<env, self, registrations, n_inst>>

FullFisherBlock ==
  /\ Instantiated(self)
  /\ self.kind \in KroneckerKinds
  /\ \E r \in {full_fisher_block(self, cov)} :
       call' = FuncCall("full_fisher_block", [covs |-> cov], r.err, r.val)
  /\ UNCHANGED <<env, self, registrations, n_inst>>

\* Both powers were registered on both factors with the block's thunks.
PowersRegistered(s) ==
  \A exp \in Exps :
    /\ Registration(s.input_factor, "register_matpower", exp,
                    s.input_damping_func) \in registrations
    /\ Registration(s.output_factor, "register_matpower", exp,
                    s.output_damping_func) \in registrations

\* Parameters of the block's layer: a filter [1, 1, 2, 2], or [1, 1, 2, 1]
\* for a depthwise layer.
Vectors(s) ==
  IF s.kind \in DepthwiseKinds
  THEN {FilterOf(1, 1, 2, 1, "labels"), FilterOf(1, 1, 2, 1, "ones")}
  ELSE {FilterOf(1, 1, 2, 2, "labels"), FilterOf(1, 1, 2, 2, "ones")}
\* Damped factors with their inverses: symmetric, positive definite.
Damped(m, inverse) == [exp \in Exps |-> IF exp = 1 THEN m ELSE inverse]
DampedFactors ==
  {Damped(<<<<1, 0>>, <<0, 1>>>>, <<<<1, 0>>, <<0, 1>>>>),
   Damped(<<<<2, 1>>, <<1, 1>>>>, <<<<1, -1>>, <<-1, 2>>>>)}

\* multiply_matpower(multiply_matpower(vector, -1), 1) on a Kronecker block.
MultiplyRoundTrip ==
  /\ Instantiated(self)
  /\ self.kind \in KroneckerKinds
  /\ PowersRegistered(self)
  /\ \E params \in Vectors(self),
        input \in DampedFactors, output \in DampedFactors :
       \E inverse \in {multiply_matpower_value(self,
                           Scaled(Num(1, 1), params), -1,
                           [input |-> input, output |-> output])} :
          \E back \in {multiply_matpower_value(self, inverse.val, 1,
                           [input |-> input, output |-> output])} :
             call' = FuncCall("multiply_matpower_round_trip",
                        [vector |-> Scaled(Num(1, 1), params),
                         input |-> input, output |-> output],
                        back.err,
                        [inverse |-> inverse.val, back |-> back.val])
  /\ UNCHANGED <<env, self, registrations, n_inst>>

\* ------------------------------------------ values of a series block
\* A float is kept as a fraction <<n, d>> in lowest terms with d > 0; d = 0
\* stands for a value that is not finite: <<1, 0>> and <<-1, 0>> are the
\* infinities and <<0, 0>> is NaN.  Rounding and overflow are left out.
Sign(n) == IF n > 0 THEN 1 ELSE IF n < 0 THEN -1 ELSE 0
Abs(n) == IF n < 0 THEN 0 - n ELSE n
NaN == <<0, 0>>
Frac(n, d) ==
  IF d = 0 THEN <<Sign(n), 0>>
  ELSE <<n \div GCD(Abs(n), d), d \div GCD(Abs(n), d)>>
IsFinite(p) == p[2] # 0
FAdd(p, q) ==
  IF IsFinite(p) /\ IsFinite(q) THEN Frac(p[1] * q[2] + q[1] * p[2], p[2] * q[2])
  ELSE IF ~ IsFinite(p) /\ ~ IsFinite(q) THEN (IF p = q THEN p ELSE NaN)
  ELSE IF IsFinite(q) THEN p ELSE q
FNeg(p) == <<0 - p[1], p[2]>>
FSub(p, q) == FAdd(p, FNeg(q))
FMul(p, q) ==
  IF IsFinite(p) /\ IsFinite(q) THEN Frac(p[1] * q[1], p[2] * q[2])
  ELSE <<Sign(p[1]) * Sign(q[1]), 0>>
\* p / q as the division of floats: x / 0 is an infinity and 0 / 0 is NaN.
FDiv(p, q) ==
  IF p = NaN \/ q = NaN THEN NaN
  ELSE IF ~ IsFinite(q) THEN (IF IsFinite(p) THEN <<0, 1>> ELSE NaN)
  ELSE IF ~ IsFinite(p) THEN <<p[1] * (IF q[1] < 0 THEN -1 ELSE 1), 0>>
  ELSE IF q[1] = 0 THEN <<Sign(p[1]), 0>>
  ELSE Frac(p[1] * q[2] * Sign(q[1]), p[2] * Abs(q[1]))
RECURSIVE FPow(_, _)
FPow(p, n) == IF n = 0 THEN <<1, 1>> ELSE FMul(p, FPow(p, n - 1))
RECURSIVE FSum(_)
FSum(seq) == IF seq = <<>> THEN <<0, 1>> ELSE FAdd(Head(seq), FSum(Tail(seq)))

\* An integer matrix as a matrix of floats.
Floats(m) == [i \in DOMAIN m |-> [j \in DOMAIN m[i] |-> <<m[i][j], 1>>]]
\* A matrix with every entry computed, and an operation on one or two
\* matrices that computes each operand once.
Computed(m) ==
  SubSeq([i \in DOMAIN m |-> SubSeq(m[i], 1, Len(m[i]))], 1, Len(m))
Unary(Op(_), a) == CHOOSE m \in {Computed(Op(x)) : x \in {a}} : TRUE
Binary(Op(_, _), a, b) ==
  CHOOSE m \in {Computed(Op(x, y)) : x \in {a}, y \in {b}} : TRUE
Columns(m) == [j \in DOMAIN m[1] |-> [i \in DOMAIN m |-> m[i][j]]]
\* array_ops.transpose(Z)
transpose(m) == Unary(Columns, m)
Product(x, y) ==
  [i \in DOMAIN x |-> [j \in DOMAIN y[1] |->
     FSum([k \in DOMAIN y |-> FMul(x[i][k], y[k][j])])]]
\* math_ops.matmul(a, b, transpose_a=..., transpose_b=...)
matmul(a, b, transpose_a, transpose_b) ==
  Binary(Product, IF transpose_a THEN transpose(a) ELSE a,
                  IF transpose_b THEN transpose(b) ELSE b)
\* Elementwise a - b, a * b and a / b on matrices of one shape.
Difference(a, b) ==
  [i \in DOMAIN a |-> [j \in DOMAIN a[i] |-> FSub(a[i][j], b[i][j])]]
Minus(a, b) == Binary(Difference, a, b)
Hadamard(a, b) ==
  [i \in DOMAIN a |-> [j \in DOMAIN a[i] |-> FMul(a[i][j], b[i][j])]]
Times(a, b) == Binary(Hadamard, a, b)
Quotient(a, b) ==
  [i \in DOMAIN a |-> [j \in DOMAIN a[i] |-> FDiv(a[i][j], b[i][j])]]
Over(a, b) == Binary(Quotient, a, b)
\* 1.0 - reshape(u, [len(u), -1]) * v: one minus the outer product.
OneMinusOuter(u, v) ==
  [i \in DOMAIN u |-> [j \in DOMAIN v |-> FSub(<<1, 1>>, FMul(u[i], v[j]))]]
Outer(u, v) == [i \in DOMAIN u |-> [j \in DOMAIN v |-> FMul(u[i], v[j])]]

\* A denominator that keeps its zeros.
zero_eigs_kept(tmp) == tmp

\* tmp += 1.0 * cast(equal(tmp, 0.0)): "setting any 0.0 eigs to 1.0"
zero_eigs_to_one(tmp) ==
  [i \in DOMAIN tmp |-> [j \in DOMAIN tmp[i] |->
     FAdd(tmp[i][j],
          FMul(<<1, 1>>, IF tmp[i][j] = <<0, 1>> THEN <<1, 1>> ELSE <<0, 1>>))]]

\* gamma(x) of option 1 for T time steps, elementwise on the matrix x.
gamma(x, T) ==
  [i \in DOMAIN x |-> [j \in DOMAIN x[i] |->
     FDiv(FPow(FSub(<<1, 1>>, x[i][j]), 2),
          FSub(FMul(<<T, 1>>, FSub(<<1, 1>>, FPow(x[i][j], 2))),
               FMul(FMul(<<2, 1>>, x[i][j]),
                    FSub(<<1, 1>>, FPow(x[i][j], T)))))]]

SeriesValue(err, val, tmp, quotient) ==
  [err |-> err, val |-> val, tmp |-> tmp, quotient |-> quotient]

\* The option 1 branch of FullyConnectedSeriesFB.multiply_matpower on the
\* transposed Z; A and G are what get_option1quants returned.
Series_option1(Z, A, G, T) ==
  LET Y == Binary(gamma, Binary(Outer, G.psi, A.psi), T)
      back(Z2) == matmul(G.L, matmul(Z2, A.L, FALSE, TRUE), FALSE, FALSE)
  IN back(Times(matmul(G.L, matmul(Z, A.L, FALSE, FALSE), TRUE, FALSE), Y))

\* The option 2 branch; A and G are what get_option2quants returned.  The
\* denominator and the quotient are kept beside the value.
Series_option2(Z, A, G, T) ==
  LET timesteps(Z5, unused) ==
        [i \in DOMAIN Z5 |-> [j \in DOMAIN Z5[i] |-> FDiv(Z5[i][j], <<T, 1>>)]]
      second(Z4) ==
        Minus(Z4, matmul(G.P, matmul(Z4, A.P, FALSE, FALSE), TRUE, FALSE))
      reverse(Z3) ==
        Binary(timesteps,
               Unary(second,
                     matmul(G.K, matmul(Z3, A.K, FALSE, TRUE), FALSE, FALSE)),
               T)
      first(Z0) ==
        Minus(Z0, matmul(G.P, matmul(Z0, A.P, FALSE, TRUE), FALSE, FALSE))
      tmp == Unary(zero_eigs_to_one, Binary(OneMinusOuter, G.mu, A.mu))
      quotient ==
        Over(matmul(G.K, matmul(Unary(first, Z), A.K, FALSE, FALSE),
                    TRUE, FALSE),
             tmp)
  IN CHOOSE r \in {SeriesValue("ok", reverse(Z3), d, Z3) :
                     Z3 \in {quotient}, d \in {tmp}} : TRUE

\* What FullyConnectedSeriesFB.multiply_matpower(vector, exp) returns; quants
\* holds what the two factors return to the get_option call of the branch.
Series_multiply_matpower_value(s, vector, exp, quants) ==
  LET unfold(r) ==
        IF r.err # "ok" THEN r
        ELSE [r EXCEPT
                !.val = mat2d_to_layer_params(vector, transpose(r.val))]
      branch(r, Z) ==
        IF r.err # "ok" THEN SeriesValue(r.err, <<>>, <<>>, <<>>)
        ELSE IF s.option = option1
        THEN SeriesValue("ok",
               Series_option1(Z, quants.input, quants.output, s.num_uses),
               <<>>, <<>>)
        ELSE IF s.option = option2
        THEN Series_option2(Z, quants.input, quants.output, s.num_uses)
        ELSE SeriesValue("ok", Z, <<>>, <<>>)
  IN unfold(branch(Series_multiply_matpower(s, exp),
                   transpose(layer_params_to_mat2d(vector))))

\* What a FullyConnectedMultiKF hands out: L and psi to get_option1quants;
\* P, K and mu to get_option2quants.  The products of two mu entries
\* include 1, and the products of two psi entries do not.
Identity2 == <<<<1, 0>>, <<0, 1>>>>
SeriesQuants ==
  {[L |-> Floats(Identity2), psi |-> <<<<0, 1>>, <<0, 1>>>>,
    P |-> Floats(<<<<0, 0>>, <<0, 0>>>>), K |-> Floats(Identity2),
    mu |-> <<<<0, 1>>, <<0, 1>>>>],
   [L |-> Floats(<<<<1, 1>>, <<0, 1>>>>), psi |-> <<<<1, 2>>, <<0, 1>>>>,
    P |-> Floats(<<<<0, 1>>, <<0, 0>>>>), K |-> Floats(<<<<1, 1>>, <<0, 1>>>>),
    mu |-> <<<<1, 1>>, <<1, 2>>>>],
   [L |-> Floats(<<<<1, 0>>, <<1, 1>>>>), psi |-> <<<<-1, 2>>, <<1, 3>>>>,
    P |-> Floats(<<<<1, 0>>, <<1, 0>>>>), K |-> Floats(<<<<1, 0>>, <<1, 1>>>>),
    mu |-> <<<<-1, 1>>, <<2, 1>>>>]}

\* The quantities of the block's option were registered on both factors.
QuantsRegistered(s) ==
  \A method \in (CASE s.option = option1 -> {"register_option1quants"}
                   [] s.option = option2 -> {"register_option2quants"}
                   [] OTHER -> {}) :
    /\ Registration(s.input_factor, method, 0, s.input_damping_func)
         \in registrations
    /\ Registration(s.output_factor, method, 0, s.output_damping_func)
         \in registrations

\* multiply_matpower(vector, exp) on a FullyConnectedSeriesFB, as a value.
SeriesMultiply ==
  /\ Instantiated(self)
  /\ self.kind = "FullyConnectedSeriesFB"
  /\ QuantsRegistered(self)
  /\ \E params \in {FilterOf(1, 1, 2, 2, "labels"), FilterOf(1, 1, 2, 2, "ones")},
        exp \in Exps, input \in SeriesQuants, output \in SeriesQuants :
       \E vector \in {[y \in DOMAIN params |-> [x \in DOMAIN params[y] |->
                         Floats(params[y][x])]]} :
         \E r \in {Series_multiply_matpower_value(self, vector, exp,
                      [input |-> input, output |-> output])} :
            call' = FuncCall("series_multiply_matpower",
                       [vector |-> vector, exp |-> exp,
                        input |-> input, output |-> output],
                       r.err,
                       [value |-> r.val, tmp |-> r.tmp,
                        quotient |-> r.quotient,
                        fcalls |-> Series_multiply_matpower(self, exp).fcalls])
  /\ UNCHANGED <<env, self, registrations, n_inst>>

\* The values a block computes depend on its class, its use count and its
\* damping, not on how many towers or sources it was given: the block gets
\* one tower and gradients from one source, under the "concat" strategy.
InitValues == Init /\ TOWER_STRATEGY = "concat"

RegisterFirstTower == self.inputs = <<>> /\ RegisterAdditionalTower
RegisterFirstBatchTower == self.batch_sizes = <<>> /\ RegisterBatchTower

InstantiateOneSource ==
  /\ CanInstantiate
  /\ n_inst = 0
  /\ \E grads_list \in {g \in WellFormedGrads(self) : Len(g) = 1},
        damping \in Dampings :
       InstantiateWith(grads_list, damping)

\* The constants and the covariances change under an instantiated block,
\* which is asked for its damping values and its full Fisher block.
SetConstantsOnBlock == Instantiated(self) /\ SetGlobalConstants
\* The constants may also be set before the first tower is registered.
SetConstantsFirst ==
  /\ ~ Instantiated(self)
  /\ num_registered_towers(self) = 0
  /\ SetGlobalConstants

NextDamping ==
  \/ RegisterFirstTower
  \/ RegisterFirstBatchTower
  \/ InstantiateOneSource
  \/ SetConstantsFirst
  \/ SetConstantsOnBlock
  \/ UpdateCov
  \/ InvokeDamping
  \/ FullFisherBlock

SpecDamping == InitValues /\ [][NextDamping]_vars

\* Powers are registered on an instantiated block, which then multiplies.
NextPowers ==
  \/ RegisterFirstTower
  \/ RegisterFirstBatchTower
  \/ InstantiateOneSource
  \/ RegisterMatpower
  \/ MultiplyRoundTrip
  \/ SeriesMultiply

SpecPowers == InitValues /\ [][NextPowers]_vars

\* The module-level functions and PackagedFunc on their own, called with
\* arguments from the sets above under any setting of the constants.
InitFunc ==
  /\ TOWER_STRATEGY = "concat"
  /\ NORMALIZE_DAMPING_POWER = 1
  /\ PI_TYPE = "tracenorm"
  /\ cov = InitialCov
  /\ self = NewBlock("FullFB", None, option2)
  /\ registrations = {}
  /\ call = NoCall
  /\ n_inst = 0

NextFunc ==
  \/ SetGlobalConstants
  \/ SetGlobalConstantsCall
  \/ NormalizeDamping
  \/ ConstructConvDiagonalFB
  \/ ComputePiAdjustedDamping
  \/ NumConvLocations
  \/ PackageFunc
  \/ DepthwiseToConv2d
  \/ Conv2dToDepthwise

SpecFunc == InitFunc /\ [][NextFunc]_vars

\* ================================================================ claims
IsInstantiate == call.op = "instantiate_factors"
ValidStrategy == TOWER_STRATEGY \in {"concat", "separate"}
\* _process_data returned (ConvKFCBasicMultiIndepFB raises after it did).
ProcessReturned == call.err \in {"ok", "AttributeError"}

\* What _process_data handed to the factors of the wired block.
ProcessedInputs(s) ==
  IF s.kind \in DiagonalKinds
  THEN s.factor.inputs ELSE s.input_factor.inputs
ProcessedGrads(s) ==
  IF s.kind \in DiagonalKinds
  THEN s.factor.grads ELSE s.output_factor.grads

\* The dampings the block's thunks were built from.
WiredDampings(s) ==
  IF s.kind \in BatchKinds \cup DiagonalKinds
  THEN {s.damping_func.damping}
  ELSE {s.input_damping_func.damping, s.output_damping_func.damping}

InputsAreLists == self.inputs[1].list
GradsAreLists == call.grads[1][1].list
InputLens == {Len(self.inputs[t].elts) : t \in DOMAIN self.inputs}
GradLens ==
  UNION {{Len(call.grads[s][t].elts) : t \in DOMAIN call.grads[s]} :
           s \in DOMAIN call.grads}

\* C1 as stated: once instantiate_factors has returned normally on a block,
\* every further instantiate_factors call on it fails.
C1_Original ==
  (IsInstantiate /\ call.again) => call.err # "ok"

\* C1 amended: no block has a call-once guard; a further instantiate_factors
\* call on a wired block with the same grads_list returns normally again and
\* leaves the damping thunk(s) built from the damping of that latest call.
C1_Rewires ==
  (IsInstantiate /\ call.again) =>
     /\ call.err = "ok"
     /\ WiredDampings(self) = {call.damping}

C1_Witness ==
  IsInstantiate /\ call.again /\ call.err = "ok" /\ n_inst >= 2

TowerMismatch ==
  \E s \in DOMAIN call.grads : Len(call.grads[s]) # Len(self.inputs)

\* C2 as stated: instantiate_factors on an input/output block fails whenever
\* some source of grads_list carries another number of towers than were
\* registered.
C2_Original ==
  (IsInstantiate /\ self.kind \in InputOutputKinds /\ TowerMismatch)
     => call.err # "ok"

\* The use counts of the call leave _process_data nothing to reject.
UsesAcceptable ==
  \/ self.kind \in SingleUseKinds
  \/ Cardinality((IF InputsAreLists THEN InputLens ELSE {})
                 \cup (IF GradsAreLists THEN GradLens ELSE {})
                 \cup (IF call.pre_num_uses # None
                       THEN {call.pre_num_uses} ELSE {})) = 1

\* C2 amended: the tower count of grads_list is not compared with the number
\* of registered towers; under both strategies a grads_list with another tower
\* count raises no configuration error (use counts being consistent), and a
\* call that returns keeps one entry per source.
C2_NoTowerCheck ==
  (IsInstantiate /\ self.kind \in InputOutputKinds /\ TowerMismatch
     /\ ValidStrategy /\ UsesAcceptable) =>
     /\ call.err # "ValueError"
     /\ call.err = "ok" =>
          Len(ProcessedGrads(self).items) = Len(call.grads)

C2_Witness ==
  /\ IsInstantiate /\ self.kind \in InputOutputKinds /\ TowerMismatch
  /\ ValidStrategy /\ call.err = "ok"

\* C3 as stated: with TOWER_STRATEGY neither "concat" nor "separate",
\* _process_data (through instantiate_factors) raises ValueError, for
\* single-use and multi-use blocks and for both input formats.
C3_Original ==
  (IsInstantiate /\ self.kind \in InputOutputKinds /\ ~ ValidStrategy)
     => call.err = "ValueError"

\* One merged piece in a singleton tuple.
Merged(c) ==
  c.container = "tuple" /\ Len(c.items) = 1 /\ c.items[1].pt

\* C4 as stated: under "concat" a multi-use block hands the factors one merged
\* piece for the inputs and one per gradient source, in either input format.
C4_Original ==
  (IsInstantiate /\ self.kind \in MultiUseKinds /\ TOWER_STRATEGY = "concat"
     /\ call.err = "ok") =>
     /\ Merged(ProcessedInputs(self))
     /\ Len(ProcessedGrads(self).items) = Len(call.grads)
     /\ \A s \in DOMAIN call.grads : Merged(ProcessedGrads(self).items[s])

\* parts is use-major over towers: position (u-1)*T + t (counting from 1)
\* holds use u of tower t.
UseMajor(parts, towers, U) ==
  LET T == Len(towers) IN
  /\ Len(parts) = U * T
  /\ \A u \in 1..U : \A t \in 1..T :
       parts[(u - 1) * T + t] = towers[t].elts[u]

\* C5: under "concat" with list-format data the merged sequence is use-major,
\* for the inputs and for each gradient source.
C5_UseMajor ==
  (IsInstantiate /\ self.kind \in MultiUseKinds /\ TOWER_STRATEGY = "concat"
     /\ call.err = "ok") =>
     /\ InputsAreLists =>
          UseMajor(ProcessedInputs(self).items[1].parts, self.inputs,
                   self.num_uses)
     /\ GradsAreLists =>
          \A s \in DOMAIN call.grads :
             UseMajor(ProcessedGrads(self).items[s].items[1].parts,
                      call.grads[s], self.num_uses)

C5_Witness ==
  /\ IsInstantiate /\ self.kind \in MultiUseKinds /\ TOWER_STRATEGY = "concat"
  /\ call.err = "ok" /\ InputsAreLists /\ GradsAreLists
  /\ Len(self.inputs) >= 2 /\ self.num_uses >= 2
  /\ \E s \in DOMAIN call.grads : Len(call.grads[s]) >= 2

\* C6: what the single-use _process_data returns for N towers and S sources,
\* under "concat" and under "separate".
C6_SingleUse ==
  (IsInstantiate /\ self.kind \in SingleUseKinds /\ call.err = "ok") =>
     LET pin == ProcessedInputs(self)
         pg == ProcessedGrads(self)
         N == Len(self.inputs)
     IN
     /\ pin.container = "tuple" /\ pg.container = "tuple"
     /\ Len(pg.items) = Len(call.grads)
     /\ IF TOWER_STRATEGY = "concat" THEN
          /\ Len(pin.items) = 1 /\ pin.items[1].pt
          /\ pin.items[1].parts = [t \in 1..N |-> self.inputs[t].elts[1]]
          /\ \A s \in DOMAIN call.grads :
               /\ Merged(pg.items[s])
               /\ pg.items[s].items[1].parts =
                    [t \in 1..Len(call.grads[s]) |-> call.grads[s][t].elts[1]]
        ELSE
          /\ TOWER_STRATEGY = "separate"
          /\ Len(pin.items) = N
          /\ \A t \in 1..N :
               pin.items[t] = [pt |-> FALSE, parts |-> self.inputs[t].elts]
          /\ \A s \in DOMAIN call.grads :
               /\ pg.items[s].container = "list"
               /\ Len(pg.items[s].items) = Len(call.grads[s])
               /\ \A t \in DOMAIN call.grads[s] :
                    pg.items[s].items[t] =
                      [pt |-> FALSE, parts |-> call.grads[s][t].elts]

C6_Witness ==
  /\ IsInstantiate /\ self.kind \in SingleUseKinds /\ call.err = "ok"
  /\ TOWER_STRATEGY = "concat"
  /\ Len(self.inputs) = 2 /\ Len(call.grads) = 2

\* pieces holds one PartitionedTensor per tower, in order, folding exactly
\* that tower's uses in use order.
FoldedPerTower(c, towers) ==
  /\ c.container = "tuple"
  /\ Len(c.items) = Len(towers)
  /\ \A t \in DOMAIN towers :
       /\ c.items[t].pt
       /\ c.items[t].parts = towers[t].elts
       /\ \A i \in DOMAIN c.items[t].parts :
            c.items[t].parts[i].tower = t /\ c.items[t].parts[i].use = i

\* C7: under "separate" with list-format data a multi-use block gets one
\* piece per tower holding that tower's uses only, on both sides.
C7_Separate ==
  (IsInstantiate /\ self.kind \in MultiUseKinds /\ TOWER_STRATEGY = "separate"
     /\ call.err = "ok") =>
     /\ InputsAreLists => FoldedPerTower(ProcessedInputs(self), self.inputs)
     /\ GradsAreLists =>
          /\ Len(ProcessedGrads(self).items) = Len(call.grads)
          /\ \A s \in DOMAIN call.grads :
               FoldedPerTower(ProcessedGrads(self).items[s], call.grads[s])

C7_Witness ==
  /\ IsInstantiate /\ self.kind \in MultiUseKinds
  /\ TOWER_STRATEGY = "separate" /\ call.err = "ok"
  /\ InputsAreLists /\ GradsAreLists
  /\ Len(self.inputs) >= 2 /\ self.num_uses >= 2

\* Every tower of the inputs and of every source has the same number of
\* uses, the constructor's num_uses if one was given.
UsesConsistent ==
  /\ Cardinality(InputLens \cup GradLens) = 1
  /\ self.ctor_num_uses # None => InputLens = {self.ctor_num_uses}

\* C8: with inputs and gradients in list format _process_data returns only if
\* the use counts are consistent, raises ValueError otherwise, and leaves
\* num_uses at the common count when it returns.
C8_UseCounts ==
  (IsInstantiate /\ self.kind \in MultiUseKinds
     /\ InputsAreLists /\ GradsAreLists) =>
     /\ ProcessReturned =>
          UsesConsistent /\ InputLens = {self.num_uses}
     /\ ~ UsesConsistent => call.err = "ValueError"

C8_Witness ==
  /\ IsInstantiate /\ self.kind \in MultiUseKinds
  /\ InputsAreLists /\ GradsAreLists /\ call.err = "ok"
  /\ Len(self.inputs) >= 2 /\ Len(call.grads) >= 2
  /\ self.ctor_num_uses = None /\ self.num_uses = 2

BothFolded == ~ InputsAreLists /\ ~ GradsAreLists

\* C9 as stated: with both sides pre-folded, a block constructed with
\* num_uses=None raises ValueError, and one constructed with a num_uses
\* returns and keeps that value.
C9_Original ==
  (IsInstantiate /\ self.kind \in MultiUseKinds /\ BothFolded) =>
     /\ self.ctor_num_uses = None => call.err = "ValueError"
     /\ self.ctor_num_uses # None =>
          ProcessReturned /\ self.num_uses = self.ctor_num_uses

\* C10: on a FullyConnectedSeriesFB, register_matpower and multiply_matpower
\* with an exponent other than -1 raise NotImplementedError, whatever the
\* option, and the call registers nothing on and asks nothing of a factor.
C10_Rejected ==
  [][(/\ self.kind = "FullyConnectedSeriesFB"
      /\ call'.op \in {"register_matpower", "multiply_matpower", "multiply"}
      /\ call'.exp # -1)
       => /\ call'.err = "NotImplementedError"
          /\ call'.fcalls = <<>>
          /\ registrations' = registrations
          /\ self' = self]_vars

C10_Witness ==
  /\ self.kind = "FullyConnectedSeriesFB"
  /\ call.op = "register_matpower" /\ call.exp = 1
  /\ call.err = "NotImplementedError"
  /\ self.option = option1

\* --------------------------------------------------- C12: pi adjustment
IsPiCall ==
  /\ call.op = "compute_pi_adjusted_damping"
  /\ call.args.pi_type \in {"tracenorm", "off"}
  /\ call.args.left_cov.rank \in {1, 2}
  /\ call.args.right_cov.rank \in {1, 2}

\* sqrt((trace(left) * rows(right)) / (trace(right) * rows(left)))
TraceNormPi(left_cov, right_cov) ==
  [sq |-> Rat(Sum(left_cov.diag) * Len(right_cov.diag),
              Sum(right_cov.diag) * Len(left_cov.diag))]

\* C12: in both modes compute_pi_adjusted_damping returns a pair whose
\* product is damping squared: (damping * pi, damping / pi) under
\* "tracenorm", with pi the trace-norm ratio of the two covariances, and
\* (damping, damping) under "off".
C12_ProductIsDampingSquared ==
  IsPiCall =>
    /\ call.err = "ok"
    /\ Len(call.result) = 2
    /\ Mul(call.result[1], call.result[2])
          = Mul(call.args.damping, call.args.damping)
    /\ call.args.pi_type = "off" =>
          call.result = <<call.args.damping, call.args.damping>>
    /\ call.args.pi_type = "tracenorm" =>
          call.result =
            <<Mul(call.args.damping,
                  TraceNormPi(call.args.left_cov, call.args.right_cov)),
              Div(call.args.damping,
                  TraceNormPi(call.args.left_cov, call.args.right_cov))>>

C12_Witness ==
  /\ IsPiCall
  /\ call.args.pi_type = "tracenorm"
  /\ call.args.damping = Sqrt(Num(2, 1))
  /\ call.result[1] # call.result[2]
  /\ call.result[1] # call.args.damping

\* ------------------------------------------- C19: convolution locations
IsLocationsCall == call.op = "num_conv_locations"

\* The product of the dimensions between the batch and the channel one.
SpatialLocations(input_shape) ==
  IF Len(input_shape) = 3 THEN input_shape[2]
  ELSE input_shape[2] * input_shape[3]

\* The product of all the strides given, 1 when none are.
StridesDivisor(strides) ==
  CASE Len(strides) = 0 -> 1
    [] Len(strides) = 1 -> strides[1]
    [] Len(strides) = 2 -> strides[1] * strides[2]
    [] Len(strides) = 4 -> strides[1] * strides[2] * strides[3] * strides[4]

\* C19: num_conv_locations is the floor of prod(input_shape[1:-1]) over
\* prod(strides), the divisor being 1 when strides is None; a spatial length
\* of 10 with stride 2 gives 5 and a length of 9 with stride 2 gives 4.
C19_FloorQuotient ==
  IsLocationsCall =>
    /\ call.err = "ok"
    /\ call.result * StridesDivisor(call.args.strides)
          <= SpatialLocations(call.args.input_shape)
    /\ SpatialLocations(call.args.input_shape)
          < (call.result + 1) * StridesDivisor(call.args.strides)
    /\ call.args.strides = <<>> =>
          call.result = SpatialLocations(call.args.input_shape)
    /\ (/\ Len(call.args.input_shape) = 3
        /\ call.args.strides = <<2>>) =>
          /\ call.args.input_shape[2] = 10 => call.result = 5
          /\ call.args.input_shape[2] = 9 => call.result = 4

C19_Witness ==
  /\ IsLocationsCall
  /\ call.args.input_shape = <<2, 9, 3>>
  /\ call.args.strides = <<2>>
  /\ call.result = 4

\* ------------------------------------------------- C14: PackagedFunc
IsPackagedFuncCall == call.op = "PackagedFunc"

\* The elements of the identity a PackagedFunc was built with.
DeclaredElements ==
  IF "container" \in DOMAIN call.args.func_id THEN call.args.func_id.items
  ELSE <<call.args.func_id>>

\* C14: func_id is a tuple with one element per declared element, in order:
\* a callable element is replaced by what it produces, any other element is
\* kept, and no callable is left; an identity that is neither a list nor a
\* tuple gives a 1-tuple; a second thunk built with the same declared
\* identity has the same func_id; invoking the thunk returns what the wrapped
\* function returns.
C14_ResolvedIdentity ==
  IsPackagedFuncCall =>
    /\ call.err = "ok"
    /\ call.result.func_id.container = "tuple"
    /\ Len(call.result.func_id.items) = Len(DeclaredElements)
    /\ \A i \in DOMAIN DeclaredElements :
         /\ ~ call.result.func_id.items[i].callable
         /\ DeclaredElements[i].callable =>
              call.result.func_id.items[i] = DeclaredElements[i].produces
         /\ ~ DeclaredElements[i].callable =>
              call.result.func_id.items[i] = DeclaredElements[i]
    /\ "container" \notin DOMAIN call.args.func_id =>
         Len(call.result.func_id.items) = 1
    /\ call.result.other_func_id = call.result.func_id
    /\ call.result.value = call.args.func.returns

C14_Witness ==
  /\ IsPackagedFuncCall
  /\ call.args.func_id = Coll("list", <<Producer("a"), Hashable("b")>>)
  /\ call.result.func_id = Coll("tuple", <<Hashable("a"), Hashable("b")>>)
  /\ call.args.func # call.args.other
  /\ call.result.value = 2

\* ------------------------------------------- C15, C16: filter conversions
IsForwardCall == call.op = "depthwise_conv2d_filter_to_conv2d_filter"
IsInverseCall == call.op = "conv2d_filter_to_depthwise_conv2d_filter"

Height(t) == Len(t)
Width(t) == Len(t[1])
InChannels(t) == Len(t[1][1])
LastAxis(t) == Len(t[1][1][1])
HasShape(t, h, w, c, m) ==
  /\ Len(t) = h
  /\ \A y \in 1..h :
       /\ Len(t[y]) = w
       /\ \A x \in 1..w :
            /\ Len(t[y][x]) = c
            /\ \A j \in 1..c : Len(t[y][x][j]) = m

\* C15: the inverse transform of the forward transform of a depthwise filter
\* W is W, and the forward result F, of shape [h, w, in, in * mult], has
\* W[:, :, i, k] at F[:, :, i, i * mult + k] and 0 wherever the input channel
\* differs from the block of the output channel.
C15_RoundTrip ==
  IsForwardCall =>
    /\ call.err = "ok"
    /\ call.result.back.err = "ok"
    /\ call.result.back.val = call.args.filter
    /\ HasShape(call.result.forward,
                Height(call.args.filter), Width(call.args.filter),
                InChannels(call.args.filter),
                InChannels(call.args.filter) * LastAxis(call.args.filter))
    /\ \A y \in 1..Height(call.args.filter),
          x \in 1..Width(call.args.filter),
          j \in 1..InChannels(call.args.filter),
          i \in 1..InChannels(call.args.filter),
          k \in 1..LastAxis(call.args.filter) :
         call.result.forward[y][x][j][(i - 1) * LastAxis(call.args.filter) + k]
           = IF j = i THEN call.args.filter[y][x][i][k] ELSE 0

C15_Witness ==
  /\ IsForwardCall
  /\ call.args.filter = FilterOf(2, 1, 3, 2, "labels")
  /\ call.result.forward[2][1][3] = <<0, 0, 0, 0, 11, 12>>
  /\ call.result.back.val = call.args.filter

\* C16: the inverse transform raises ValueError exactly when the number of
\* output channels is not a multiple of the number of input channels;
\* otherwise it returns a filter of shape [h, w, in, out \div in] whose entry
\* [i, k] is the entry [i, i * (out \div in) + k] of the argument.
C16_InverseValidates ==
  IsInverseCall =>
    /\ call.err \in {"ok", "ValueError"}
    /\ call.err = "ValueError"
         <=> LastAxis(call.args.filter) % InChannels(call.args.filter) # 0
    /\ call.err = "ok" =>
         /\ HasShape(call.result,
                     Height(call.args.filter), Width(call.args.filter),
                     InChannels(call.args.filter),
                     LastAxis(call.args.filter)
                       \div InChannels(call.args.filter))
         /\ \A y \in 1..Height(call.args.filter),
               x \in 1..Width(call.args.filter),
               i \in 1..InChannels(call.args.filter),
               k \in 1..(LastAxis(call.args.filter)
                           \div InChannels(call.args.filter)) :
              call.result[y][x][i][k]
                = call.args.filter[y][x][i][
                    (i - 1) * (LastAxis(call.args.filter)
                                 \div InChannels(call.args.filter)) + k]

C16_Witness ==
  /\ IsInverseCall
  /\ InChannels(call.args.filter) = 3
  /\ LastAxis(call.args.filter) = 4
  /\ call.err = "ValueError"

\* ------------------------------------------ C11: lag-1 covariance first
IsSeries == self.kind = "FullyConnectedSeriesFB"
OptionQuants == {"register_option1quants", "register_option2quants"}

\* C11: on a FullyConnectedSeriesFB, whenever a call registers option-1 or
\* option-2 quantities on a factor, register_cov_dt1 was registered on that
\* factor by an earlier call; and an instantiate_factors call that returns
\* issues register_cov_dt1 on the input factor, then on the output factor,
\* and only then sets up the damping thunks.
C11_CovDt1First ==
  [][IsSeries =>
       /\ \A r \in registrations' \ registrations :
            r.method \in OptionQuants =>
              \E before \in registrations :
                /\ before.method = "register_cov_dt1"
                /\ before.factor = r.factor
       /\ (call'.op = "instantiate_factors" /\ call'.err = "ok") =>
            /\ call'.fcalls =
                 <<FactorCall("input", "register_cov_dt1", 0, NoThunk),
                   FactorCall("output", "register_cov_dt1", 0, NoThunk),
                   FactorCall("block", "_setup_damping", 0, NoThunk)>>
            /\ \A role \in {"input", "output"} :
                 Registration(FactorOf(self', role), "register_cov_dt1", 0,
                              NoThunk) \in registrations']_vars

C11_Witness ==
  /\ IsSeries
  /\ call.op \in {"register_matpower", "register_inverse"}
  /\ call.err = "ok"
  /\ \E r \in registrations :
       /\ r.method = "register_option1quants"
       /\ r.factor = self.output_factor
       /\ \E before \in registrations :
            before.method = "register_cov_dt1" /\ before.factor = r.factor

\* ------------------------------------------------- C20: batch sizes
IsBatchBlock == self.kind \in BatchKinds

\* C20 as stated: once towers with batch sizes b_1..b_k are registered on a
\* FullFB or NaiveDiagonalFB, num_registered_towers is k, the effective batch
\* size is their sum, and the damping the block uses is the damping
\* normalized by that effective batch size.
C20_Original ==
  (IsBatchBlock /\ Instantiated(self) /\ self.batch_sizes # <<>>) =>
     /\ num_registered_towers(self) = Len(self.batch_sizes)
     /\ self_batch_size(self) = Sum(self.batch_sizes)
     /\ damping_func(self.damping_func, self, NORMALIZE_DAMPING_POWER,
                     PI_TYPE, cov).val
          = normalize_damping(Num(self.damping_func.damping, 1),
                              Sum(self.batch_sizes),
                              NORMALIZE_DAMPING_POWER)

\* C20: on a FullFB or NaiveDiagonalFB every register_additional_tower call
\* adds one to num_registered_towers and its batch size to the effective
\* batch size, both starting at 0 (4 then 6 give 2 and 10); instantiate_factors
\* hands the effective batch size to the factor, and the damping thunk it
\* builds has the identity (damping,) and returns the damping unchanged,
\* whatever the normalization power.
C20_BatchSizeFeedsFactor ==
  [][IsBatchBlock =>
       /\ call.op = "__init__" =>
            num_registered_towers(self) = 0 /\ self_batch_size(self) = 0
       /\ call'.op = "register_additional_tower" =>
            /\ num_registered_towers(self') = num_registered_towers(self) + 1
            /\ self_batch_size(self')
                 = self_batch_size(self)
                     + self'.batch_sizes[Len(self'.batch_sizes)]
       /\ call'.op = "instantiate_factors" =>
            /\ call'.err = "ok"
            /\ self'.factor.batch_size = self_batch_size(self)
            /\ self.batch_sizes = <<4, 6>> =>
                 /\ num_registered_towers(self') = 2
                 /\ self'.factor.batch_size = 10
            /\ damping_id(self'.damping_func, self')
                 = <<Hashable(call'.damping)>>
            /\ \A power \in DampingPowers :
                 damping_func(self'.damping_func, self', power, PI_TYPE,
                              cov).val = Num(call'.damping, 1)]_vars

C20_Witness ==
  /\ IsBatchBlock
  /\ call.op = "instantiate_factors"
  /\ self.batch_sizes = <<4, 6>>
  /\ num_registered_towers(self) = 2
  /\ self.factor.batch_size = 10
  /\ call.damping = 2

\* --------------------------------------------- C17: inverse, then forward
IsRoundTrip == call.op = "multiply_matpower_round_trip"

\* C17 as stated: on a Kronecker block with powers -1 and 1 registered on
\* both factors, multiply_matpower(multiply_matpower(v, -1), 1) returns v.
C17_Original ==
  IsRoundTrip =>
    /\ call.err = "ok"
    /\ call.result.back = call.args.vector

\* ------------------------------------------- C13: identities and values
IsDampingCall(c) == c.op = "damping_func" /\ c.err = "ok"

\* C13 as stated: two invocations of damping thunks whose resolved
\* identities are equal return equal damping values, whatever the constants
\* and the covariances were set to in between.
C13_Original ==
  [][(/\ IsDampingCall(call)
      /\ IsDampingCall(call')
      /\ call.result.func_id = call'.result.func_id)
       => call.result.value = call'.result.value]_vars

\* ------------------------------------------------ C18: full Fisher block
IsFullFisherBlockCall == call.op = "full_fisher_block"

\* The coefficient c of the block's class.
CoefficientOf(s) ==
  CASE s.kind \in {"ConvKFCBasicFB", "DepthwiseConvKFCBasicFB"} ->
         s.num_locations
    [] s.kind \in {"FullyConnectedMultiIndepFB",
                   "EmbeddingKFACMultiIndepFB"} -> s.num_uses
    [] s.kind = "ConvKFCBasicMultiIndepFB" -> s.num_locations * s.num_uses
    [] OTHER -> 1

\* C18 as stated: on every instantiated Kronecker block full_fisher_block()
\* returns c * kron(input_cov, output_cov) for the current covariances: entry
\* (i, j) of the diagonal is c * input_cov[i] * output_cov[j].
C18_Original ==
  IsFullFisherBlockCall =>
    /\ call.err = "ok"
    /\ call.result.rank = 2
    /\ Len(call.result.diag)
         = Len(call.args.covs.input.diag) * Len(call.args.covs.output.diag)
    /\ \A i \in DOMAIN call.args.covs.input.diag,
          j \in DOMAIN call.args.covs.output.diag :
         call.result.diag[(i - 1) * Len(call.args.covs.output.diag) + j]
           = CoefficientOf(self) * call.args.covs.input.diag[i]
               * call.args.covs.output.diag[j]

\* ------------------------------------------ C21: powers of diagonal blocks
IsDiagonal == self.kind \in DiagonalKinds
RegisterOps == {"register_matpower", "register_inverse"}
MultiplyOps == {"multiply_matpower", "multiply_inverse", "multiply"}

\* C21: on a diagonal block register_matpower(exp) and register_inverse()
\* return normally, change nothing of the block and make no call on the
\* factor, for every exp; multiply_matpower(vector, exp) returns normally for
\* every exp although no power was ever registered on the factor, making the
\* one call left_multiply_matpower(vector, exp, damping_func) on it.
C21_RegisterIsNoOp ==
  [][IsDiagonal =>
       /\ call'.op \in RegisterOps =>
            /\ call'.err = "ok"
            /\ call'.fcalls = <<>>
            /\ self' = self
            /\ registrations' = registrations
       /\ call'.op \in MultiplyOps =>
            /\ call'.err = "ok"
            /\ call'.fcalls =
                 <<FactorCall("factor", "left_multiply_matpower", call'.exp,
                              self.damping_func)>>
            /\ registrations = {}
            /\ self' = self]_vars

C21_Witness ==
  /\ self.kind = "ConvDiagonalFB"
  /\ call.op = "multiply_matpower" /\ call.exp = 1 /\ call.err = "ok"
  /\ registrations = {}

\* --------------------------------------- C22: the option 2 denominator
IsSeriesInverse(opt) ==
  /\ call.op = "series_multiply_matpower"
  /\ call.args.exp = -1
  /\ self.option = opt

\* 1 - mu_G[i] * mu_A[j]
RawDenominator(i, j) ==
  FSub(<<1, 1>>, FMul(call.args.output.mu[i], call.args.input.mu[j]))

AllFinite(m) == \A i \in DOMAIN m : \A j \in DOMAIN m[i] : IsFinite(m[i][j])

\* C22: in the option 2 inverse the denominator used for the elementwise
\* division has 1 wherever 1 - mu_G[i] * mu_A[j] is exactly zero and
\* 1 - mu_G[i] * mu_A[j] everywhere else, so no entry of it is zero, and the
\* quotient and the returned value hold no NaN and no infinity.
C22_ZeroEigsReplaced ==
  IsSeriesInverse(option2) =>
    /\ call.err = "ok"
    /\ DOMAIN call.result.tmp = DOMAIN call.args.output.mu
    /\ \A i \in DOMAIN call.args.output.mu :
         /\ DOMAIN call.result.tmp[i] = DOMAIN call.args.input.mu
         /\ \A j \in DOMAIN call.args.input.mu :
              /\ call.result.tmp[i][j] =
                   IF RawDenominator(i, j) = <<0, 1>> THEN <<1, 1>>
                   ELSE RawDenominator(i, j)
              /\ call.result.tmp[i][j] # <<0, 1>>
    /\ AllFinite(call.result.quotient)
    /\ AllFinite(layer_params_to_mat2d(call.result.value))

C22_Witness ==
  /\ IsSeriesInverse(option2)
  /\ call.err = "ok"
  /\ \E i \in DOMAIN call.args.output.mu, j \in DOMAIN call.args.input.mu :
       /\ RawDenominator(i, j) = <<0, 1>>
       /\ call.result.tmp[i][j] = <<1, 1>>
       /\ call.result.quotient[i][j] # <<0, 1>>
  /\ \E i \in DOMAIN call.args.output.mu, j \in DOMAIN call.args.input.mu :
       RawDenominator(i, j) \notin {<<0, 1>>, <<1, 1>>}

\* ------------------------------------------- C23: inputs and outputs
IsInputOutput == self.kind \in InputOutputKinds

\* C23: on every block built on InputOutputMultiTower the inputs and the
\* outputs registered are equally many, so num_registered_towers never fails
\* its assertion; it is 0 after construction and every
\* register_additional_tower call adds one to it and appends the call's
\* outputs to the tuple tensors_to_compute_grads returns; no other call
\* changes either.
C23_TowersConsistent ==
  [][IsInputOutput =>
       /\ IO_num_registered_towers(self').err = "ok"
       /\ call.op = "__init__" =>
            /\ IO_num_registered_towers(self) = [err |-> "ok", val |-> 0]
            /\ tensors_to_compute_grads(self) = Coll("tuple", <<>>)
       /\ call'.op = "register_additional_tower" =>
            /\ IO_num_registered_towers(self').val
                 = IO_num_registered_towers(self).val + 1
            /\ tensors_to_compute_grads(self').container = "tuple"
            /\ \E outputs \in {self'.outputs[Len(self'.outputs)]} :
                 /\ outputs.tower = Len(self.outputs) + 1
                 /\ tensors_to_compute_grads(self').items
                      = Append(tensors_to_compute_grads(self).items, outputs)
       /\ call'.op # "register_additional_tower" =>
            /\ IO_num_registered_towers(self') = IO_num_registered_towers(self)
            /\ tensors_to_compute_grads(self')
                 = tensors_to_compute_grads(self)]_vars

C23_Witness ==
  /\ IsInputOutput
  /\ call.op = "register_additional_tower"
  /\ IO_num_registered_towers(self) = [err |-> "ok", val |-> 2]
  /\ tensors_to_compute_grads(self)
       = Coll("tuple", <<Tensor("out", 0, 1, 0), Tensor("out", 0, 2, 0)>>)

\* ------------------------------------- C24: the process-wide constants
\* C24: normalize_damping(damping, n) returns damping / n**power when
\* NORMALIZE_DAMPING_POWER is a nonzero power and damping itself when it is
\* zero (damping 2 and n = 2 give 1/2 under power 2), changing neither
\* constant; set_global_constants sets each constant passed as non-None to
\* the value passed and leaves a constant passed as None as it was.
C24_ConstantsAndNormalization ==
  [][call.op = "__init__" =>
       /\ call'.op = "normalize_damping" =>
            /\ call'.err = "ok"
            /\ NORMALIZE_DAMPING_POWER # 0 =>
                 call'.result =
                   Div(call'.args.damping,
                       Pow(Num(call'.args.num_replications, 1),
                           NORMALIZE_DAMPING_POWER))
            /\ NORMALIZE_DAMPING_POWER = 0 =>
                 call'.result = call'.args.damping
            /\ (/\ NORMALIZE_DAMPING_POWER = 2
                /\ call'.args.damping = Num(2, 1)
                /\ call'.args.num_replications = 2) =>
                 call'.result = Num(1, 2)
            /\ UNCHANGED <<NORMALIZE_DAMPING_POWER, PI_TYPE>>
       /\ call'.op = "set_global_constants" =>
            /\ call'.err = "ok"
            /\ NORMALIZE_DAMPING_POWER' =
                 IF call'.args.normalize_damping_power = None
                 THEN NORMALIZE_DAMPING_POWER
                 ELSE call'.args.normalize_damping_power
            /\ PI_TYPE' =
                 IF call'.args.pi_type = "None" THEN PI_TYPE
                 ELSE call'.args.pi_type]_vars

C24_Witness ==
  /\ call.op = "normalize_damping"
  /\ NORMALIZE_DAMPING_POWER = 2
  /\ call.args.damping = Num(2, 1)
  /\ call.args.num_replications = 2
  /\ call.result = Num(1, 2)

\* ------------------------------------ C25: the Kronecker multiplication
\* The blocks that run KroneckerProductFB.multiply_matpower and
\* KroneckerProductFB.register_matpower.
UsesKroneckerMethods ==
  self.kind \in KroneckerKinds \ {"FullyConnectedSeriesFB"}

\* C25: multiply_matpower(vector, exp) of KroneckerProductFB calls
\* right_multiply_matpower(.., exp, output thunk) on the output factor, then
\* left_multiply_matpower(.., exp, input thunk) on the input factor, the two
\* thunks being the halves with ref 1 and ref 0 of the block's damping, and
\* scales the result by c**exp exactly when c # 1; register_matpower(exp)
\* registers exp on the input factor with the input thunk and on the output
\* factor with the output thunk.
C25_OutputThenInput ==
  (UsesKroneckerMethods /\ call.err = "ok") =>
     /\ call.op \in MultiplyOps =>
          /\ call.fcalls =
               <<FactorCall("output", "right_multiply_matpower", call.exp,
                            self.output_damping_func),
                 FactorCall("input", "left_multiply_matpower", call.exp,
                            self.input_damping_func)>>
          /\ call.fcalls[1].thunk.ref = 1
          /\ call.fcalls[2].thunk.ref = 0
          /\ call.scaled <=> CoefficientOf(self) # 1
     /\ call.op \in RegisterOps =>
          /\ call.fcalls =
               <<FactorCall("input", "register_matpower", call.exp,
                            self.input_damping_func),
                 FactorCall("output", "register_matpower", call.exp,
                            self.output_damping_func)>>
          /\ call.fcalls[1].thunk.ref = 0
          /\ call.fcalls[2].thunk.ref = 1
          /\ Registration(self.input_factor, "register_matpower", call.exp,
                          self.input_damping_func) \in registrations
          /\ Registration(self.output_factor, "register_matpower", call.exp,
                          self.output_damping_func) \in registrations

C25_Witness ==
  /\ self.kind = "FullyConnectedMultiIndepFB"
  /\ self.num_uses = 2
  /\ call.op = "multiply_matpower" /\ call.exp = -1 /\ call.err = "ok"
  /\ call.scaled
  /\ call.fcalls[1].role = "output" /\ call.fcalls[1].thunk.ref = 1

\* ------------------------------ C26: coefficients of the multi-use blocks
MultiIndepKinds ==
  {"FullyConnectedMultiIndepFB", "ConvKFCBasicMultiIndepFB",
   "EmbeddingKFACMultiIndepFB"}

\* The replication count the claim gives the block's class.
ReplicationCount(s) ==
  IF s.kind = "ConvKFCBasicMultiIndepFB"
  THEN num_conv_locations(ConvInputShape, ConvStrides) * s.num_uses
  ELSE s.num_uses

\* C26 as stated: on a multi-use Kronecker block whose data _process_data
\* accepts (list format or pre-folded), instantiate_factors completes, the
\* coefficient c is num_uses (num_locations * num_uses for
\* ConvKFCBasicMultiIndepFB), and the damping thunks are normalized by the
\* same count.
C26_Original ==
  (IsInstantiate /\ self.kind \in MultiIndepKinds /\ ProcessReturned) =>
     /\ call.err = "ok"
     /\ renorm_coeff(self) = [err |-> "ok", val |-> ReplicationCount(self)]
     /\ self.input_damping_func.norm = ReplicationCount(self)
     /\ self.output_damping_func.norm = ReplicationCount(self)

\* ------------------------------------ C27: constructing a ConvDiagonalFB
IsConstruction == call.op = "ConvDiagonalFB"

\* dilations, None being [1, 1, 1, 1].
DilationsUsed ==
  IF call.args.dilations.given THEN call.args.dilations.val
  ELSE <<1, 1, 1, 1>>

\* C27: the constructor of ConvDiagonalFB raises ValueError exactly when
\* strides has another length than 4, or dilations (None standing for
\* [1, 1, 1, 1]) has, or data_format is not channels-last, or the filter is
\* not of rank 4; otherwise it returns a ConvDiagonalFB with no tower
\* registered.
C27_ConstructorValidates ==
  IsConstruction =>
    /\ call.err \in {"ok", "ValueError"}
    /\ call.err = "ValueError" <=>
         \/ Len(call.args.strides) # 4
         \/ Len(DilationsUsed) # 4
         \/ (call.args.data_format.given
               /\ call.args.data_format.val # "NHWC")
         \/ Len(call.args.params.filter_shape) # 4
    /\ call.err = "ok" =>
         /\ self.kind = "ConvDiagonalFB"
         /\ IO_num_registered_towers(self) = [err |-> "ok", val |-> 0]
         /\ ~ Instantiated(self)

C27_Witness ==
  /\ IsConstruction
  /\ call.err = "ValueError"
  /\ Len(call.args.strides) = 4
  /\ ~ call.args.dilations.given
  /\ call.args.data_format = Given("NCHW")
  /\ Len(call.args.params.filter_shape) = 4

\* ------------------------------------------- C28: an unknown PI_TYPE
UnknownPiType == PI_TYPE \notin {"tracenorm", "off"}

\* C28: while PI_TYPE is neither "tracenorm" nor "off", instantiate_factors
\* ends as it does under a known PI_TYPE (no TypeError; a Kronecker block
\* that is wired gets its two damping thunks), and the first sign of the
\* setting is at the invocation of a damping thunk of a Kronecker block,
\* which ends in TypeError because compute_pi_adjusted_damping returned None
\* instead of raising; the thunk of any other block returns its value.
C28_SurfacesAtInvocation ==
  [][UnknownPiType =>
       /\ (call'.op = "instantiate_factors" /\ call' # call) =>
            /\ call'.err =
                 instantiate_factors(self, call'.grads, call'.damping,
                                     TOWER_STRATEGY).err
            /\ call'.err # "TypeError"
            /\ (call'.err = "ok" /\ self.kind \in KroneckerKinds) =>
                 /\ self'.input_damping_func.kind
                      = "compute_pi_adjusted_damping"
                 /\ self'.output_damping_func.kind
                      = "compute_pi_adjusted_damping"
       /\ (call'.op = "damping_func" /\ call' # call) =>
            IF self.kind \in KroneckerKinds
            THEN call'.err = "TypeError"
            ELSE call'.err = "ok"]_vars

C28_Witness ==
  /\ UnknownPiType
  /\ self.kind = "FullyConnectedKFACBasicFB"
  /\ call.op = "damping_func"
  /\ call.err = "TypeError"
  /\ call.args.thunk = self.input_damping_func

\* ------------------------------- C29: a series block of unknown option
UnknownOption ==
  /\ self.kind = "FullyConnectedSeriesFB"
  /\ self.option \notin {option1, option2}

\* C29: on a FullyConnectedSeriesFB whose option is neither option1 nor
\* option2, register_matpower(-1) raises ValueError and registers nothing,
\* while multiply_matpower(vector, -1) raises nothing, calls neither
\* factor and returns the vector it was given.
C29_OperationsDisagree ==
  UnknownOption =>
    /\ (call.op = "register_matpower" /\ call.exp = -1) =>
         /\ call.err = "ValueError"
         /\ call.fcalls = <<>>
         /\ \A r \in registrations :
              r.method \notin {"register_option1quants",
                               "register_option2quants"}
    /\ (call.op = "series_multiply_matpower" /\ call.args.exp = -1) =>
         /\ call.err = "ok"
         /\ call.result.fcalls = <<>>
         /\ call.result.value = call.args.vector

C29_Witness ==
  /\ UnknownOption
  /\ call.op = "series_multiply_matpower"
  /\ call.args.exp = -1
  /\ call.err = "ok"
  /\ call.result.value = call.args.vector
  /\ call.result.value[1][1][1] # call.result.value[1][1][2]

\* ------------------------- C30: the use count after a failed _process_data
\* The use count the list-format inputs of the block imply.
InferredFromInputs == Len(self.inputs[1].elts)

\* A multi-use block built with num_uses = None whose towers are lists of
\* one length was handed gradients that are lists of another length.
GradsDisagreeWithInputs ==
  /\ call.op = "instantiate_factors"
  /\ self.kind \in MultiUseKinds
  /\ call.pre_num_uses = None
  /\ self.inputs[1].list
  /\ UsesAgree(self.inputs, InferredFromInputs)
  /\ call.grads[1][1].list
  /\ Len(call.grads[1][1].elts) # InferredFromInputs

\* C30: when a multi-use block built with num_uses = None infers its use
\* count from list-format inputs and _process_data then raises because the
\* gradients have another use count, the call ends in ValueError with the
\* block unwired and its num_uses set to the count inferred from the inputs.
C30_InferredCountLeaks ==
  GradsDisagreeWithInputs =>
    /\ call.err = "ValueError"
    /\ ~ Instantiated(self)
    /\ self.num_uses = InferredFromInputs

C30_Witness ==
  /\ GradsDisagreeWithInputs
  /\ TOWER_STRATEGY \in {"concat", "separate"}
  /\ call.err = "ValueError"
  /\ self.num_uses = InferredFromInputs
  /\ self.num_uses # call.pre_num_uses

====
